---- MODULE Spec2Model ----
(***************************************************************************)
(* A model of the test-bed interpreter (src/program.rs), its loop compiler *)
(* (src/parser/mod.rs, src/parser/commands.rs) and its process supervisor  *)
(* (src/bed/mod.rs, src/bed/process.rs).                                   *)
(*                                                                         *)
(* Indices kept in the state (scope indices, list offsets, instruction     *)
(* ids) are 0-based as in the source; TLA+ sequences are 1-based, so every *)
(* access adds one.                                                        *)
(***************************************************************************)
EXTENDS Integers, Sequences, FiniteSets, TLC

\* ------------------------------------------------------------------------
\* Bounds of the model
\* ------------------------------------------------------------------------

\* Longest list a program of the model iterates over.
MaxLen == 2

\* Longest chain of Refs evaluate_ref follows before the model reports that
\* the loop does not terminate (a cycle of Refs).
MaxRefChain == 4

\* Number of processes in the specification of the process API.
MaxProcs == 2

\* Largest number of interrupt signals delivered during one run.
MaxSignals == 2

\* Deepest scope stack in the specification of the scope stack.
MaxDepth == 2

\* Longest duration, in milliseconds, a TimeoutLoop is made for, besides
\* the 1000 ms of the documented example.
MaxDuration == 12

\* Largest number of polls a TimeoutLoop is made for.
MaxPolls == 5

\* Largest number of indices of a TestBed of src/commands.rs.
MaxIndices == 3

\* Largest bound of an index.
MaxIndexBound == 3

\* The u64 of src/bed.rs, scaled down: a duration is a number below Word
\* and `current += self.sleep` overflows when the sum reaches Word.
Word == 2048

\* ------------------------------------------------------------------------
\* Object model (src/program.rs)
\* ------------------------------------------------------------------------

\* Option::None, and an empty HashMap.
Nil == [kind |-> "None"]

EmptyMap == [n \in {} |-> Nil]

Struct(base, properties) ==
    [kind |-> "Struct", base |-> base, properties |-> properties]

\* Object::new
Object_new(base) == Struct(base, EmptyMap)

List(items) == [kind |-> "List", items |-> items]

VariableRef(scope, target, offset) ==
    [kind |-> "Ref", scope |-> scope, target |-> target, offset |-> offset]

Counter(offset, start, end) ==
    [kind |-> "Counter", offset |-> offset, start |-> start, end |-> end]

\* Counter::idx
Counter_idx(c) == c.start + c.offset

\* Counter::len
Counter_len(c) == IF c.end >= c.start THEN c.end - c.start ELSE 0

\* Results of fallible operations: Ok(v), Err(VariableAccessError), or a
\* panic of the thread (an unwrap of None, an index out of range, panic!).
Ok(v) == [tag |-> "Ok", val |-> v]

Err(kind, name) == [tag |-> "Err", err |-> [kind |-> kind, name |-> name]]

Panic == [tag |-> "Panic"]

\* A loop of the source that never ends.
Hang == [tag |-> "Hang"]

Some(v) == [tag |-> "Some", val |-> v]

None == [tag |-> "None"]

IsAbort(r) == r.tag \in {"Panic", "Hang"}

\* The `?` operator: anything but Ok ends the computation with that result,
\* an Ok value is handed to the rest of the computation.
AndThen(r, Fn(_)) == IF r.tag # "Ok" THEN r ELSE Fn(r.val)

\* The `?` operator on an Option (Option::and_then)
Option_and_then(r, Fn(_)) == IF r.tag = "Some" THEN Fn(r.val) ELSE r

\* Option::ok_or
ok_or(r, e) ==
    IF r.tag = "Some" THEN Ok(r.val) ELSE IF r.tag = "None" THEN e ELSE r

\* Option::unwrap
unwrap(r) ==
    IF r.tag = "Some" THEN Ok(r.val) ELSE IF r.tag = "None" THEN Panic ELSE r

\* Decimal text of the integers the model's programs use: format!("{v}")
\* and str::parse are inverse to each other on these.
IntRange == -1 .. 4

FormatInt(n) ==
    CASE n = -1 -> "-1" [] n = 0 -> "0" [] n = 1 -> "1" [] n = 2 -> "2"
      [] n = 3 -> "3" [] n = 4 -> "4" [] OTHER -> "?"

\* str::parse::<i64>
ParseI64(s) ==
    IF \E n \in IntRange : FormatInt(n) = s
    THEN Some(CHOOSE n \in IntRange : FormatInt(n) = s)
    ELSE None

\* str::parse::<usize>
ParseUsize(s) ==
    LET r == ParseI64(s) IN
    IF r.tag = "Some" /\ r.val >= 0 THEN r ELSE None

\* The loop of get_value, `for (i, scope) in
\* self.scopes.iter().enumerate().rev()`, from the scope with 0-based index
\* i on: the first scope that holds the variable ends it.
RECURSIVE get_value_rev(_, _, _)
get_value_rev(scopes, variable, i) ==
    IF i < 0 THEN None
    ELSE IF variable \in DOMAIN scopes[i + 1]
         THEN Some([scope |-> i, object |-> scopes[i + 1][variable]])
    ELSE get_value_rev(scopes, variable, i - 1)

\* ProgramState::get_value: Some((i, value)) or None
get_value(scopes, variable) == get_value_rev(scopes, variable, Len(scopes) - 1)

\* A faulty loop that goes through the scopes from the outermost on.
RECURSIVE get_value_mut_fwd(_, _, _)
get_value_mut_fwd(scopes, variable, i) ==
    IF i < 0 THEN None
    ELSE IF variable \in DOMAIN scopes[Len(scopes) - i]
         THEN Some([scope |-> Len(scopes) - i - 1,
                    object |-> scopes[Len(scopes) - i][variable]])
    ELSE get_value_mut_fwd(scopes, variable, i - 1)

\* The loop of get_value_mut, `for scope in self.scopes.iter_mut().rev()`,
\* from the scope with 0-based index i on.  The `&mut Object` it returns
\* is the place of the binding: the scope it is in and what it holds.
RECURSIVE get_value_mut_rev(_, _, _)
get_value_mut_rev(scopes, variable, i) ==
    IF i < 0 THEN None
    ELSE IF variable \in DOMAIN scopes[i + 1]
         THEN Some([scope |-> i, object |-> scopes[i + 1][variable]])
    ELSE get_value_mut_rev(scopes, variable, i - 1)

\* ProgramState::get_value_mut
get_value_mut(scopes, variable) ==
    get_value_mut_rev(scopes, variable, Len(scopes) - 1)

\* ProgramState::evaluate_ref: the first lookup and the `while let Ref` loop
\* do the same step, so one recursion covers both.
RECURSIVE RefLoop(_, _, _)
RefLoop(scopes, variable, fuel) ==
    IF variable.kind # "Ref" THEN Some(variable)
    ELSE IF fuel = 0 THEN Hang
    ELSE IF variable.scope >= Len(scopes) THEN Panic
    ELSE LET scope == scopes[variable.scope + 1] IN
         IF variable.target \notin DOMAIN scope THEN None
         ELSE LET v == scope[variable.target] IN
              IF v.kind = "List"
              THEN IF variable.offset >= Len(v.items) THEN None
                   ELSE RefLoop(scopes, v.items[variable.offset + 1], fuel - 1)
              ELSE RefLoop(scopes, v, fuel - 1)

evaluate_ref(scopes, value) == RefLoop(scopes, value, MaxRefChain)

\* evaluate_ref(..).unwrap()
evaluate_ref_unwrap(scopes, value) == unwrap(evaluate_ref(scopes, value))

\* `match object { Object::Ref(value) => evaluate_ref(*value).unwrap(),
\* value => value }`
Deref(scopes, object) ==
    IF object.kind = "Ref" THEN evaluate_ref_unwrap(scopes, object)
    ELSE Ok(object)

\* ListIdx values
ListIdx_Integer(n) == [kind |-> "Integer", n |-> n]

ListIdx_String(s) == [kind |-> "String", s |-> s]

\* ListIdx::get_object
ListIdx_get_object(idx, list) ==
    IF idx.kind = "Integer"
    THEN IF idx.n < Len(list) THEN Ok(list[idx.n + 1]) ELSE Err("InvalidIdx", "")
    ELSE LET hit == {i \in 1 .. Len(list) :
                        list[i].kind = "Struct" /\ list[i].base = idx.s} IN
         IF hit = {} THEN Err("InvalidIdx", "")
         ELSE Ok(list[CHOOSE i \in hit : \A j \in hit : i <= j])

\* ProgramState::object_to_idx, the match on the dereferenced object
to_idx(o) ==
    CASE o.kind = "Counter" ->
            IF Counter_idx(o) < 0 THEN None
            ELSE Some(ListIdx_Integer(Counter_idx(o)))
      [] o.kind = "Struct" ->
            LET p == ParseUsize(o.base) IN
            IF p.tag = "Some" THEN Some(ListIdx_Integer(p.val))
            ELSE Some(ListIdx_String(o.base))
      [] OTHER -> None

\* ProgramState::object_to_idx
object_to_idx(scopes, object) ==
    IF object.kind = "Ref"
    THEN Option_and_then(evaluate_ref(scopes, object), to_idx)
    ELSE to_idx(object)

\* VariableIdx and VarFieldId values (path expressions)
VariableIdx_Integer(n) == [kind |-> "Integer", n |-> n]

VariableIdx_Variable(id) == [kind |-> "Variable", id |-> id]

VarFieldId(var, idx, field) == [var |-> var, idx |-> idx, field |-> field]

\* VarFieldId::new
VarFieldId_new(var) == VarFieldId(var, Nil, Nil)

RECURSIVE evaluate_idx(_, _)
RECURSIVE get_object(_, _)
RECURSIVE VarFieldId_get_value(_, _, _)

\* ProgramState::evaluate_idx
evaluate_idx(scopes, idx) ==
    IF idx.kind = "Integer" THEN Ok(ListIdx_Integer(idx.n))
    ELSE AndThen(get_object(scopes, idx.id), LAMBDA object :
             ok_or(object_to_idx(scopes, object), Err("InvalidIdx", "")))

\* The tail shared by get_object and VarFieldId::get_value: the optional
\* index into a list, then the optional field chain.
IdxThenField(scopes, id, object) ==
    AndThen(IF id.idx = Nil THEN Ok(object)
            ELSE IF object.kind # "List" THEN Err("NotAList", "")
            ELSE AndThen(evaluate_idx(scopes, id.idx), LAMBDA idx :
                     ListIdx_get_object(idx, object.items)),
            LAMBDA indexed :
                IF id.field = Nil THEN Ok(indexed)
                ELSE VarFieldId_get_value(scopes, id.field, indexed))

\* VarFieldId::get_value: project `object` through the field chain.
VarFieldId_get_value(scopes, id, object) ==
    AndThen(Deref(scopes, object), LAMBDA target :
        IF target.kind # "Struct" THEN Err("NotAStruct", "")
        ELSE IF id.var \notin DOMAIN target.properties
             THEN Err("MissingField", id.var)
        ELSE IdxThenField(scopes, id, target.properties[id.var]))

\* ProgramState::get_object
get_object(scopes, id) ==
    LET found == get_value(scopes, id.var) IN
    IF found.tag = "None" THEN Err("MissingVariable", id.var)
    ELSE IdxThenField(scopes, id, found.val.object)

\* ------------------------------------------------------------------------
\* Expressions (src/bed/expr.rs)
\* ------------------------------------------------------------------------

\* Object::write_to_string: the text appended for `object`.
write_to_string(scopes, object) ==
    AndThen(Deref(scopes, object), LAMBDA target :
        CASE target.kind = "Struct" -> Ok(target.base)
          [] target.kind = "Counter" -> Ok(FormatInt(Counter_idx(target)))
          [] OTHER -> Err("NotAStruct", ""))

StringInstance_String(s) == [kind |-> "String", s |-> s]

StringInstance_Variable(id) == [kind |-> "Variable", id |-> id]

\* StringExpr::evaluate, one instance of the expression
StringInstance_evaluate(value, scopes) ==
    IF value.kind = "String" THEN Ok(value.s)
    ELSE AndThen(get_object(scopes, value.id), LAMBDA object :
             write_to_string(scopes, object))

\* StringExpr::evaluate: the instances' texts, concatenated in order.
RECURSIVE StringExpr_evaluate(_, _)
StringExpr_evaluate(expr, scopes) ==
    IF expr = <<>> THEN Ok("")
    ELSE AndThen(StringInstance_evaluate(Head(expr), scopes), LAMBDA first :
         AndThen(StringExpr_evaluate(Tail(expr), scopes), LAMBDA rest :
             Ok(first \o rest)))

RangeExpr_Integer(n) == [kind |-> "Integer", n |-> n]

RangeExpr_Variable(expr) == [kind |-> "Variable", expr |-> expr]

\* RangeExpr::evaluate
RangeExpr_evaluate(range, scopes) ==
    IF range.kind = "Integer" THEN Ok(range.n)
    ELSE AndThen(StringExpr_evaluate(range.expr, scopes), LAMBDA expr :
             ok_or(ParseI64(expr), Err("InvalidIdx", "")))

IterTargetExpr_Variable(var) == [kind |-> "Variable", var |-> var]

IterTargetExpr_Range(start, end) ==
    [kind |-> "Range", start |-> start, end |-> end]

\* IterTargetExpr::to_itertarget
to_itertarget(target) ==
    IF target.kind = "Variable" THEN [kind |-> "Variable", var |-> target.var]
    ELSE [kind |-> "Range"]

ObjectExpr_Clone(id) == [kind |-> "Clone", id |-> id]

ObjectExpr_List(exprs) == [kind |-> "List", exprs |-> exprs]

ObjectExpr_Counter(min, max) == [kind |-> "Counter", min |-> min, max |-> max]

\* ObjectExpr::Struct(StructExpr { base, properties })
ObjectExpr_Struct(base, properties) ==
    [kind |-> "Struct", base |-> base, properties |-> properties]

\* A literal string as an object expression.
ObjectExpr_Str(s) == ObjectExpr_Struct(<<StringInstance_String(s)>>, EmptyMap)

\* ObjectExpr::evaluate.  The properties of a struct expression are
\* evaluated before its base; when several properties fail, the HashMap's
\* iteration order decides which error is returned, and the model returns
\* one of them.
RECURSIVE ObjectExpr_evaluate(_, _)
RECURSIVE EvaluateAll(_, _)
EvaluateAll(exprs, scopes) ==
    IF exprs = <<>> THEN Ok(<<>>)
    ELSE AndThen(ObjectExpr_evaluate(Head(exprs), scopes), LAMBDA first :
         AndThen(EvaluateAll(Tail(exprs), scopes), LAMBDA rest :
             Ok(<<first>> \o rest)))

\* ObjectExpr::Struct, once its properties are evaluated
StructExpr_evaluate(expr, scopes, objects) ==
    LET failed == {k \in DOMAIN objects : objects[k].tag # "Ok"} IN
    IF failed # {} THEN objects[CHOOSE k \in failed : TRUE]
    ELSE AndThen(StringExpr_evaluate(expr.base, scopes), LAMBDA base :
             Ok(Struct(base, [k \in DOMAIN objects |-> objects[k].val])))

ObjectExpr_evaluate(expr, scopes) ==
    CASE expr.kind = "Clone" -> get_object(scopes, expr.id)
      [] expr.kind = "List" ->
            AndThen(EvaluateAll(expr.exprs, scopes), LAMBDA list :
                Ok(List(list)))
      [] expr.kind = "Counter" ->
            AndThen(RangeExpr_evaluate(expr.min, scopes), LAMBDA min :
            AndThen(RangeExpr_evaluate(expr.max, scopes), LAMBDA max :
                Ok(Counter(0, min, max))))
      [] OTHER ->
            StructExpr_evaluate(expr, scopes,
                [k \in DOMAIN expr.properties |->
                    ObjectExpr_evaluate(expr.properties[k], scopes)])

\* ------------------------------------------------------------------------
\* Commands (src/bed/commands.rs)
\* ------------------------------------------------------------------------

ArgBuilder_String(expr) == [kind |-> "String", expr |-> expr]

ArgBuilder_Set(id) == [kind |-> "Set", id |-> id]

\* ObjectIter::object_iter followed by the iterator's run to its end: the
\* strings one Set argument expands to.
RECURSIVE ListBases(_)
ListBases(items) ==
    IF items = <<>> THEN Ok(<<>>)
    ELSE IF Head(items).kind # "Struct" THEN Panic
    ELSE LET rest == ListBases(Tail(items)) IN
         IF rest.tag # "Ok" THEN rest
         ELSE Ok(<<Head(items).base>> \o rest.val)

ObjectIter(scopes, object) ==
    AndThen(Deref(scopes, object), LAMBDA target :
        CASE target.kind = "Counter" ->
                Ok([i \in 1 .. Counter_len(target) |->
                       FormatInt(target.start + (i - 1))])
          [] target.kind = "Struct" -> Ok(<<target.base>>)
          [] OTHER -> ListBases(target.items))

\* ArgBuilder::evaluate
ArgBuilder_evaluate(arg, scopes) ==
    IF arg.kind = "String"
    THEN AndThen(StringExpr_evaluate(arg.expr, scopes), LAMBDA value :
             Ok(<<value>>))
    ELSE AndThen(get_object(scopes, arg.id), LAMBDA object :
             ObjectIter(scopes, object))

\* Spawn { command, args }; both streams are routed to the display and no
\* working directory is set.
\* OutputMap
OutputMap_Print == [kind |-> "Print"]

OutputMap_Create(value) == [kind |-> "Create", value |-> value]

OutputMap_Append(value) == [kind |-> "Append", value |-> value]

\* `map_ref_with_err(|value| Ok(value.evaluate(state)?.into()))`
OutputMap_evaluate(map, scopes) ==
    IF map.kind = "Print" THEN Ok(map)
    ELSE AndThen(StringExpr_evaluate(map.value, scopes), LAMBDA path :
             Ok([map EXCEPT !.value = path]))

\* A Spawn whose streams go to the display.
SpawnExpr(command, args) ==
    [command |-> command, args |-> args, stdout |-> OutputMap_Print,
     stderr |-> OutputMap_Print]

\* A Spawn with the routing of its streams (`> file`, `>> file`).
SpawnExprTo(command, args, stdout, stderr) ==
    [command |-> command, args |-> args, stdout |-> stdout,
     stderr |-> stderr]

RECURSIVE EvaluateArgs(_, _)
EvaluateArgs(args, scopes) ==
    IF args = <<>> THEN Ok(<<>>)
    ELSE AndThen(ArgBuilder_evaluate(Head(args), scopes), LAMBDA first :
         AndThen(EvaluateArgs(Tail(args), scopes), LAMBDA rest :
             Ok(first \o rest)))

\* Spawn::evaluate: the ProcessInfo to run (command and argument strings,
\* and where its streams go).
Spawn_evaluate(spawn, scopes) ==
    AndThen(StringExpr_evaluate(spawn.command, scopes), LAMBDA command :
    AndThen(EvaluateArgs(spawn.args, scopes), LAMBDA args :
    AndThen(OutputMap_evaluate(spawn.stdout, scopes), LAMBDA stdout :
    AndThen(OutputMap_evaluate(spawn.stderr, scopes), LAMBDA stderr :
        Ok([command |-> command, args |-> args, stdout |-> stdout,
            stderr |-> stderr])))))

Command_LimitSpawn(limit) == [kind |-> "LimitSpawn", limit |-> limit]

Command_Sleep(millis) == [kind |-> "Sleep", millis |-> millis]

Command_Spawn(spawn) == [kind |-> "Spawn", spawn |-> spawn]

\* WaitAll(Option<u64>): timeout is Nil or [kind |-> "Some", ms |-> t].
Command_WaitAll(timeout) == [kind |-> "WaitAll", timeout |-> timeout]

SomeMs(t) == [kind |-> "Some", ms |-> t]

\* ------------------------------------------------------------------------
\* Instructions (src/program.rs) and the loop compiler (src/parser)
\* ------------------------------------------------------------------------
\* The parser never emits the two remaining variants of Instruction (writing
\* a string to the terminal, loading a variable from a file), so the compiled
\* programs below do not contain them.

PushScope == [op |-> "PushScope"]

PopScope == [op |-> "PopScope"]

PushList(target, object) ==
    [op |-> "PushList", target |-> target, object |-> object]

\* CreateVar / AssignVar with scope: None, as the parser emits them.
CreateVar(target, value) ==
    [op |-> "CreateVar", target |-> target, scope |-> Nil, value |-> value]

AssignVar(target, value) ==
    [op |-> "AssignVar", target |-> target, scope |-> Nil, value |-> value]

StartIter(target, iter, jump) ==
    [op |-> "StartIter", target |-> target, iter |-> iter, jump |-> jump]

Increment(target, iter, jump) ==
    [op |-> "Increment", target |-> target, iter |-> iter, jump |-> jump]

ConditionalJump(cond, jump) ==
    [op |-> "ConditionalJump", cond |-> cond, jump |-> jump]

Goto(target) == [op |-> "Goto", jump |-> target]

Command(command) == [op |-> "Command", command |-> command]

CommandExpr_Command(instruction) ==
    [kind |-> "Command", instruction |-> instruction]

\* CommandExpr::ForLoop { for_loop: ForLoop { ty, iters, targets }, exprs }
CommandExpr_ForLoop(ty, iters, targets, exprs) ==
    [kind |-> "ForLoop", ty |-> ty, iters |-> iters, targets |-> targets,
     exprs |-> exprs]

CommandExpr_If(conditions, exprs) ==
    [kind |-> "If", conditions |-> conditions, exprs |-> exprs]

\* A faulty patch that sets the jump one instruction too far, past the
\* closing PopScope of a loop.
PatchJumps_past(instructions, from, until, op, to) ==
    [i \in 1 .. Len(instructions) |->
        IF i - 1 >= from /\ i - 1 < until /\ instructions[i].op = op
        THEN [instructions[i] EXCEPT !.jump = to + 1]
        ELSE instructions[i]]

\* `*jump = InstructionId(to)` for the instructions of kind `op` at the
\* 0-based indices from .. until-1.
PatchJumps(instructions, from, until, op, to) ==
    [i \in 1 .. Len(instructions) |->
        IF i - 1 >= from /\ i - 1 < until /\ instructions[i].op = op
        THEN [instructions[i] EXCEPT !.jump = to]
        ELSE instructions[i]]

\* The StartIter / Increment instructions build_group_loop pushes, one per
\* (iter, target) pair of the zip.
ZipLen(iters, targets) ==
    IF Len(iters) <= Len(targets) THEN Len(iters) ELSE Len(targets)

RECURSIVE build_expr(_, _)
RECURSIVE build_exprs(_, _)
RECURSIVE build_combination_loop(_, _, _, _)

\* The callback `f` of the loop builders: build every expression of the body.
build_exprs(exprs, instructions) ==
    IF exprs = <<>> THEN instructions
    ELSE build_exprs(Tail(exprs), build_expr(Head(exprs), instructions))

\* A faulty group loop: the loop is nested like a cartesian one.
build_group_loop_nested(iters, targets, instructions, exprs) ==
    build_combination_loop(iters, targets, instructions, exprs)

\* build_group_loop
build_group_loop(iters, targets, instructions, exprs) ==
    LET n == ZipLen(iters, targets)
        i1 == Append(instructions, PushScope)
        iter_start == Len(i1)
        i2 == i1 \o [k \in 1 .. n |-> StartIter(targets[k], iters[k], 0)]
        goto == Len(i2)
        i3 == Append(build_exprs(exprs, Append(i2, PushScope)), PopScope)
        increment_start == Len(i3)
        i4 == i3 \o [k \in 1 .. n |->
                        Increment(to_itertarget(targets[k]), iters[k], 0)]
        i5 == Append(i4, Goto(goto))
        end_idx == Len(i5)
        i6 == Append(i5, PopScope)
        i7 == PatchJumps(i6, iter_start, goto, "StartIter", end_idx)
    IN  PatchJumps(i7, increment_start, end_idx, "Increment", end_idx)

\* A faulty cartesian loop: the iterators advance together.
build_combination_loop_zipped(iters, targets, instructions, exprs) ==
    build_group_loop(iters, targets, instructions, exprs)

\* build_combination_loop
build_combination_loop(iters, targets, instructions, exprs) ==
    IF iters = <<>>
    THEN Append(build_exprs(exprs, Append(instructions, PushScope)), PopScope)
    ELSE LET this_iter == iters[1]
             this_target == targets[1]
             i1 == Append(instructions, PushScope)
             iter_start == Len(i1)
             i2 == Append(i1, StartIter(this_target, this_iter, 0))
             goto == Len(i2)
             i3 == build_combination_loop(Tail(iters), Tail(targets), i2, exprs)
             increment_start == Len(i3)
             i4 == Append(i3, Increment(to_itertarget(this_target), this_iter, 0))
             i5 == Append(i4, Goto(goto))
             end_idx == Len(i5)
             i6 == Append(i5, PopScope)
             i7 == PatchJumps(i6, iter_start, iter_start + 1, "StartIter", end_idx)
         IN  PatchJumps(i7, increment_start, increment_start + 1, "Increment",
                        end_idx)

\* build_expr (with ForLoop::build inlined)
build_expr(expr, instructions) ==
    CASE expr.kind = "Command" -> Append(instructions, expr.instruction)
      [] expr.kind = "ForLoop" ->
            IF expr.ty = "Group"
            THEN build_group_loop(expr.iters, expr.targets, instructions,
                                  expr.exprs)
            ELSE build_combination_loop(expr.iters, expr.targets, instructions,
                                        expr.exprs)
      [] OTHER ->
            LET start == Len(instructions)
                i1 == instructions \o
                      [k \in 1 .. Len(expr.conditions) |->
                          ConditionalJump(expr.conditions[k], 0)]
                end == Len(i1)
                i2 == Append(build_exprs(expr.exprs, Append(i1, PushScope)),
                             PopScope)
                jump_target == Len(i2)
            IN  PatchJumps(i2, start, end, "ConditionalJump", jump_target)

\* build_commands_program
build_commands_program(exprs) == build_exprs(exprs, <<>>)

\* ------------------------------------------------------------------------
\* Processes (src/bed/process.rs)
\* ------------------------------------------------------------------------

\* ProcessState.  Error's io::Error is not modelled; `code` is the exit code
\* of Failed(Some(code)) and -1 wherever the source has no code.
ProcessState_Running == [kind |-> "Running", code |-> -1]

ProcessState_Killed == [kind |-> "Killed", code |-> -1]

ProcessState_Error == [kind |-> "Error", code |-> -1]

ProcessState_Failed(code) == [kind |-> "Failed", code |-> code]

ProcessState_Finished == [kind |-> "Finished", code |-> -1]

\* The OS side of a child: "alive", "exit0" (exited with success), "exit1"
\* (exited with code 1) or "killed" (ended by the kill signal).
ExitCode(os) == IF os = "exit0" THEN 0 ELSE IF os = "exit1" THEN 1 ELSE -1

\* A stream of a child: who reads its pipe ("display": a thread of
\* spawn_progress_writer, "file": a thread of spawn_file_writer, "none":
\* the read end has been dropped), and the ProcessBar's flag for it.
Stream(sink, flag) == [sink |-> sink, flag |-> flag]

\* A child as the OS and the display see it: its command line, its OS
\* status, the ProcessBar's status, the number of kill requests the OS
\* has received for it, and its streams; here with both streams printed.
NewChild(command, args) ==
    [command |-> command, args |-> args, os |-> "alive",
     state |-> ProcessState_Running, kills |-> 0,
     stdout |-> Stream("display", FALSE), stderr |-> Stream("display", FALSE)]

\* ProcessInfo::run, one of its two `match &self.stdout` / `&self.stderr`:
\* the pipe is moved into spawn_progress_writer or into spawn_file_writer;
\* if spawn_file_writer returns an error (`openFailed`) it has started no
\* thread and has dropped the pipe, and the flag is set.
RunStream(map, openFailed) ==
    IF map.kind = "Print" THEN Stream("display", FALSE)
    ELSE IF openFailed THEN Stream("none", TRUE)
    ELSE Stream("file", FALSE)

\* ProcessInfo::run after `process.spawn()?` has succeeded: the child;
\* `openFailed` holds the streams whose file spawn_file_writer cannot
\* open.
ProcessInfo_run(process, openFailed) ==
    [NewChild(process.command, process.args) EXCEPT
        !.stdout = RunStream(process.stdout, "stdout" \in openFailed),
        !.stderr = RunStream(process.stderr, "stderr" \in openFailed)]

\* ProcessBar::set_state: the new status of a bar whose status is `status`.
ProcessBar_set_state(status, state) ==
    IF state.kind = "Running" THEN status ELSE state

\* ProcessStatus::kill on child `c`; `refused` says the OS call failed.
ProcessStatus_kill(chld, c, refused) ==
    [chld EXCEPT
        ![c].os = IF ~refused /\ @ = "alive" THEN "killed" ELSE @,
        ![c].kills = @ + 1,
        ![c].state = ProcessBar_set_state(@,
                        IF refused THEN ProcessState_Error
                        ELSE ProcessState_Killed)]

\* A ProcessInfo that has been run: the child it started and whether it
\* still holds the handle (`running` is Some).
ProcessInfo(c) == [child |-> c, running |-> TRUE]

\* A faulty kill that keeps the handle, so that a later kill asks the OS
\* again.
ProcessInfo_kill_retry(info, chld, refused) ==
    IF info.running
    THEN [info |-> info,
          children |-> ProcessStatus_kill(chld, info.child, refused)]
    ELSE [info |-> info, children |-> chld]

\* ProcessInfo::kill
ProcessInfo_kill(info, chld, refused) ==
    IF info.running
    THEN [info |-> [info EXCEPT !.running = FALSE],
          children |-> ProcessStatus_kill(chld, info.child, refused)]
    ELSE [info |-> info, children |-> chld]

\* A faulty try_wait that takes a child that is still alive for one that
\* has exited with success.
ProcessInfo_try_wait_early(info, chld, failed) ==
    IF ~info.running THEN [ret |-> TRUE, children |-> chld]
    ELSE [ret |-> TRUE,
          children |-> [chld EXCEPT ![info.child].state =
                           IF failed THEN ProcessState_Error
                           ELSE IF chld[info.child].os = "exit1"
                                THEN ProcessState_Failed(1)
                           ELSE ProcessState_Finished]]

\* ProcessInfo::try_wait; `failed` says the OS poll returned an error.
ProcessInfo_try_wait(info, chld, failed) ==
    IF ~info.running THEN [ret |-> TRUE, children |-> chld]
    ELSE LET c == info.child
             os == chld[c].os
             set(state) ==
                 [chld EXCEPT ![c].state = ProcessBar_set_state(@, state)]
         IN  IF failed THEN [ret |-> TRUE, children |-> set(ProcessState_Error)]
             ELSE IF os = "alive" THEN [ret |-> FALSE, children |-> chld]
             ELSE IF os = "exit0"
                  THEN [ret |-> TRUE, children |-> set(ProcessState_Finished)]
             ELSE [ret |-> TRUE,
                   children |-> set(ProcessState_Failed(ExitCode(os)))]

\* ------------------------------------------------------------------------
\* Supervisor (src/bed/mod.rs)
\* ------------------------------------------------------------------------

\* SLEEP_TIME, in milliseconds
SLEEP_TIME == 100

\* Vec::swap_remove at 0-based index i
swap_remove(v, i) ==
    [k \in 1 .. Len(v) - 1 |-> IF k = i + 1 THEN v[Len(v)] ELSE v[k]]

\* The children a list of ProcessInfo refers to.
Tracked(procs) == {procs[k].child : k \in 1 .. Len(procs)}

\* The poll of wait_all (the inner `while i < self.processes.len()` loop);
\* pollFailed is the set of children whose OS poll fails.
RECURSIVE PollLoop(_, _, _, _)
PollLoop(procs, chld, i, pollFailed) ==
    IF i >= Len(procs) THEN [processes |-> procs, children |-> chld]
    ELSE LET r == ProcessInfo_try_wait(procs[i + 1], chld,
                                       procs[i + 1].child \in pollFailed)
         IN  IF r.ret
             THEN PollLoop(swap_remove(procs, i), r.children, i, pollFailed)
             ELSE PollLoop(procs, r.children, i + 1, pollFailed)

\* Executable<Command>::shutdown for TestBed: kill every tracked process
\* and drain the list; `refused` is the set of children the OS refuses to
\* kill.
RECURSIVE KillAll(_, _, _)
KillAll(procs, chld, refused) ==
    IF procs = <<>> THEN chld
    ELSE KillAll(Tail(procs),
                 ProcessInfo_kill(Head(procs), chld,
                                  Head(procs).child \in refused).children,
                 refused)

\* A faulty shutdown that kills every tracked process and keeps the list.
TestBed_shutdown_keep(procs, chld, refused) ==
    [processes |-> procs, children |-> KillAll(procs, chld, refused)]

\* A faulty shutdown: the list is drained, nothing is killed.
TestBed_shutdown_drain(procs, chld, refused) ==
    [processes |-> <<>>, children |-> chld]

TestBed_shutdown(procs, chld, refused) ==
    [processes |-> <<>>, children |-> KillAll(procs, chld, refused)]

\* ------------------------------------------------------------------------
\* Scope stack (src/program.rs)
\* ------------------------------------------------------------------------

ProgramState(scopes, scope_cache) ==
    [scopes |-> scopes, scope_cache |-> scope_cache]

\* ProgramState::new_scope
new_scope(st) ==
    IF st.scope_cache = <<>>
    THEN ProgramState(Append(st.scopes, EmptyMap), <<>>)
    ELSE ProgramState(Append(st.scopes, st.scope_cache[Len(st.scope_cache)]),
                      SubSeq(st.scope_cache, 1, Len(st.scope_cache) - 1))

\* A faulty clear that leaves the bindings in the map.
HashMap_clear_keep(scope) == scope

\* HashMap::clear
HashMap_clear(scope) == EmptyMap

\* ProgramState::pop_scope
pop_scope(st) ==
    IF st.scopes = <<>> THEN st
    ELSE ProgramState(SubSeq(st.scopes, 1, Len(st.scopes) - 1),
                      Append(st.scope_cache,
                             HashMap_clear(st.scopes[Len(st.scopes)])))

\* HashMap::insert on the scope at 0-based index i
Bind(scopes, i, id, var) ==
    [scopes EXCEPT ![i + 1] = (id :> var) @@ @]

\* ProgramState::insert_var; `scope` is Nil or [kind |-> "Some", n |-> i].
RECURSIVE GrowTo(_, _)
GrowTo(st, scope) ==
    IF scope >= Len(st.scopes) THEN GrowTo(new_scope(st), scope) ELSE st

insert_var(st, id, var, scope) ==
    LET st1 == IF st.scopes = <<>> THEN new_scope(st) ELSE st
        i == IF scope = Nil THEN Len(st1.scopes) - 1 ELSE scope.n
        st2 == GrowTo(st1, i)
    IN  ProgramState(Bind(st2.scopes, i, id, var), st2.scope_cache)

\* ProgramState::set_var: Ok(the new state) or Err(VariableAccessError).
set_var(st, id, property, value) ==
    LET found == get_value_mut(st.scopes, id) IN
    IF property # Nil
    THEN IF found.tag = "None" THEN Err("MissingVariable", id)
         ELSE IF found.val.object.kind # "Struct" THEN Err("NotAStruct", "")
         ELSE Ok(ProgramState(
                  Bind(st.scopes, found.val.scope, id,
                       [found.val.object EXCEPT
                           !.properties = (property.id :> value) @@ @]),
                  st.scope_cache))
    ELSE IF found.tag = "Some"
         THEN Ok(ProgramState(Bind(st.scopes, found.val.scope, id, value),
                              st.scope_cache))
    ELSE LET st1 == IF st.scopes = <<>> THEN new_scope(st) ELSE st IN
         Ok(ProgramState(Bind(st1.scopes, Len(st1.scopes) - 1, id, value),
                         st1.scope_cache))

\* ------------------------------------------------------------------------
\* The programs of the model
\* ------------------------------------------------------------------------

\* The k-th element of the list the i-th iterator of a loop runs over.
ElemName(i, k) ==
    CASE i = 1 -> <<"a", "b", "c", "d">>[k]
      [] i = 2 -> <<"x", "y", "z", "w">>[k]
      [] OTHER -> <<"p", "q", "r", "s">>[k]

ListName(i) == <<"xs", "ys", "zs">>[i]

IterName(i) == <<"a", "b", "c">>[i]

Str(s) == <<StringInstance_String(s)>>

Var(name) == StringInstance_Variable(VarFieldId_new(name))

\* `name := [e1, .., en]`
CreateList(i, n) ==
    CommandExpr_Command(CreateVar(ListName(i),
        ObjectExpr_List([k \in 1 .. n |-> ObjectExpr_Str(ElemName(i, k))])))

CreateLists(lens) == [i \in 1 .. Len(lens) |-> CreateList(i, lens[i])]

LoopIters(lens) == [i \in 1 .. Len(lens) |-> IterName(i)]

LoopTargets(lens) ==
    [i \in 1 .. Len(lens) |-> IterTargetExpr_Variable(ListName(i))]

\* `spawn "echo" a b ..`: one argument per iteration variable.
SpawnIters(lens) ==
    CommandExpr_Command(Command(Command_Spawn(SpawnExpr(Str("echo"),
        [i \in 1 .. Len(lens) |-> ArgBuilder_String(<<Var(IterName(i))>>)]))))

\* `push visited "<a><b>.."`: the elements the iteration variables stand
\* for, concatenated, recorded in the variable state.
PushIters(lens) ==
    CommandExpr_Command(PushList("visited",
        ObjectExpr_Struct([i \in 1 .. Len(lens) |-> Var(IterName(i))],
                          EmptyMap)))

CreateVisited ==
    CommandExpr_Command(CreateVar("visited", ObjectExpr_List(<<>>)))

SpawnJob(arg) ==
    CommandExpr_Command(Command(Command_Spawn(SpawnExpr(Str("job"),
        <<ArgBuilder_String(Str(arg))>>))))

Timeout(t) == IF t < 0 THEN Nil ELSE SomeMs(t)

\* The v-th of the bases of the structs of an indexed list.
KeyBase(v) == CASE v = 0 -> "a" [] v = 1 -> "b" [] v = 2 -> "0" [] OTHER -> "c"

\* The base of the v-th kind of condition value of an if statement.
CondBase(v) == CASE v = 0 -> "false" [] v = 1 -> "true" [] OTHER -> "0"

\* The v-th of the lower bounds of a loop over a range.
RangeStart(v) == CASE v = 0 -> 1 [] v = 1 -> -1 [] OTHER -> 3

\* The source text a scenario stands for, as the parser's CommandExprs.
ScenarioExprs(sc) ==
    CASE sc.name = "group" ->
            CreateLists(sc.lens) \o
            <<CommandExpr_ForLoop("Group", LoopIters(sc.lens),
                                  LoopTargets(sc.lens), <<SpawnIters(sc.lens)>>)>>
      [] sc.name = "comb" ->
            <<CreateVisited>> \o CreateLists(sc.lens) \o
            <<CommandExpr_ForLoop("Combinations", LoopIters(sc.lens),
                                  LoopTargets(sc.lens), <<PushIters(sc.lens)>>)>>
      [] sc.name = "range" ->
            <<CreateVisited,
              CommandExpr_ForLoop("Group", <<"a">>,
                  <<IterTargetExpr_Range(RangeExpr_Integer(RangeStart(sc.limit)),
                        RangeExpr_Variable(Str(FormatInt(1 + sc.lens[1]))))>>,
                  <<PushIters(sc.lens)>>)>>
      [] sc.name = "limit" ->
            <<CommandExpr_Command(Command(Command_LimitSpawn(sc.limit))),
              SpawnJob("1"), SpawnJob("2"), SpawnJob("3"),
              CommandExpr_Command(Command(Command_WaitAll(Timeout(sc.timeout))))>>
      [] sc.name = "sleep" ->
            <<CommandExpr_Command(Command(Command_Sleep(sc.timeout)))>>
      [] sc.name = "shrink" ->
            \* for a in xs { xs = [<shorter>]; spawn "echo" a }
            <<CreateList(1, sc.lens[1]),
              CommandExpr_ForLoop("Group", <<"a">>,
                  <<IterTargetExpr_Variable("xs")>>,
                  <<CommandExpr_Command(AssignVar("xs",
                        ObjectExpr_List([k \in 1 .. sc.lens[2] |->
                                            ObjectExpr_Str(ElemName(1, k))]))),
                    SpawnIters(<<sc.lens[1]>>)>>)>>
      [] sc.name = "if" ->
            \* a := <base>; b := <base>; if a b { spawn "job" "1" }
            \* spawn "job" "2"
            IF sc.limit = 0
            THEN [i \in 1 .. Len(sc.lens) |->
                     CommandExpr_Command(CreateVar(IterName(i),
                         ObjectExpr_Str(CondBase(sc.lens[i]))))] \o
                 <<CommandExpr_If([i \in 1 .. Len(sc.lens) |->
                                      VarFieldId_new(IterName(i))],
                                  <<SpawnJob("1")>>),
                   SpawnJob("2")>>
            \* xs := [<base>]; for a in xs { if a { spawn "job" "1" }
            \* spawn "job" "2" }
            ELSE <<CommandExpr_Command(CreateVar("xs", ObjectExpr_List(
                       <<ObjectExpr_Str(CondBase(sc.lens[1]))>>))),
                   CommandExpr_ForLoop("Group", <<"a">>,
                       <<IterTargetExpr_Variable("xs")>>,
                       <<CommandExpr_If(<<VarFieldId_new("a")>>,
                                        <<SpawnJob("1")>>),
                         SpawnJob("2")>>)>>
      [] sc.name = "err_push" ->
            \* xs := ["a"]; a := "s"; push <target> "v", to a variable that
            \* is not bound / not a list
            <<CreateList(1, 1),
              CommandExpr_Command(CreateVar("a", ObjectExpr_Str("s"))),
              CommandExpr_Command(PushList(IF sc.limit = 0 THEN "nope" ELSE "a",
                                           ObjectExpr_Str("v")))>>
      [] sc.name = "err_loop" ->
            \* inside a loop: an expression over an unbound name, in each
            \* kind of instruction that evaluates one
            <<CreateVisited, CreateList(1, 2),
              CommandExpr_ForLoop("Group", <<"a">>,
                  <<IterTargetExpr_Variable("xs")>>,
                  <<PushIters(<<2>>),
                    CASE sc.limit = 0 ->
                            CommandExpr_Command(Command(Command_Spawn(
                                SpawnExpr(Str("echo"),
                                    <<ArgBuilder_Set(VarFieldId_new("nope"))>>))))
                      [] sc.limit = 1 ->
                            CommandExpr_Command(AssignVar("visited",
                                ObjectExpr_Clone(VarFieldId("a", Nil,
                                    VarFieldId_new("nope")))))
                      [] sc.limit = 2 ->
                            CommandExpr_Command(CreateVar("v",
                                ObjectExpr_Clone(VarFieldId("xs",
                                    VariableIdx_Integer(2), Nil))))
                      [] sc.limit = 3 ->
                            CommandExpr_If(<<VarFieldId_new("xs")>>, <<>>)
                      [] sc.limit = 4 ->
                            CommandExpr_ForLoop("Group", <<"b">>,
                                <<IterTargetExpr_Variable("a")>>, <<>>)
                      [] sc.limit = 5 ->
                            CommandExpr_ForLoop("Group", <<"b">>,
                                <<IterTargetExpr_Range(RangeExpr_Integer(0),
                                      RangeExpr_Variable(<<Var("a")>>))>>, <<>>)
                      [] OTHER ->
                            CommandExpr_Command(AssignVar("a",
                                ObjectExpr_Str("v")))
                  >>)>>
      [] sc.name = "nested" ->
            \* rows := [<element>]; for row in rows { spawn "echo" <path> }
            \* with the element a list and the path row[0], or the element
            \* a struct with a property p and the path row.p
            <<CommandExpr_Command(CreateVar("rows", ObjectExpr_List(
                  <<IF sc.limit = 0
                    THEN ObjectExpr_List(<<ObjectExpr_Str("a"),
                                           ObjectExpr_Str("b")>>)
                    ELSE ObjectExpr_Struct(Str("s"),
                                           "p" :> ObjectExpr_Str("v"))>>))),
              CommandExpr_ForLoop("Group", <<"row">>,
                  <<IterTargetExpr_Variable("rows")>>,
                  <<CommandExpr_Command(Command(Command_Spawn(
                        SpawnExpr(Str("echo"),
                            <<ArgBuilder_String(<<StringInstance_Variable(
                                  IF sc.limit = 0
                                  THEN VarFieldId("row", VariableIdx_Integer(0),
                                                  Nil)
                                  ELSE VarFieldId("row", Nil,
                                                  VarFieldId_new("p")))>>)>>))))
                  >>)>>
      [] sc.name = "index" ->
            \* xs := [<base>]; push xs <base> { p: "v" }; key := <base>;
            \* v := xs[key]
            <<CommandExpr_Command(CreateVar("xs", ObjectExpr_List(
                  <<ObjectExpr_Str(KeyBase(sc.lens[1]))>>))),
              CommandExpr_Command(PushList("xs",
                  ObjectExpr_Struct(Str(KeyBase(sc.lens[2])),
                                    "p" :> ObjectExpr_Str("v")))),
              CommandExpr_Command(CreateVar("key",
                  ObjectExpr_Str(KeyBase(sc.lens[2])))),
              CommandExpr_Command(CreateVar("v", ObjectExpr_Clone(
                  VarFieldId("xs",
                             VariableIdx_Variable(VarFieldId_new("key")),
                             Nil))))>>
      [] sc.name = "leak" ->
            \* limit <n>; spawn "job" "1"; spawn "echo" nope
            <<CommandExpr_Command(Command(Command_LimitSpawn(sc.limit))),
              SpawnJob("1"),
              CommandExpr_Command(Command(Command_Spawn(
                  SpawnExpr(Str("echo"),
                      <<ArgBuilder_Set(VarFieldId_new("nope"))>>))))>>
      [] sc.name = "route" ->
            \* spawn "job" "1" > "out" 2>> "log", or with one of the two
            \* streams printed
            <<CommandExpr_Command(Command(Command_Spawn(
                  SpawnExprTo(Str("job"), <<ArgBuilder_String(Str("1"))>>,
                      IF sc.limit = 1 THEN OutputMap_Print
                      ELSE OutputMap_Create(Str("out")),
                      IF sc.limit = 0 THEN OutputMap_Print
                      ELSE OutputMap_Append(Str("log"))))))>>
      [] sc.name = "assign" ->
            IF sc.limit = 0
            \* x = "v", x not created before
            THEN <<CommandExpr_Command(AssignVar("x", ObjectExpr_Str("v")))>>
            \* x := "u"; for a in 0..<n> { x := "v"; x = "w" }
            ELSE <<CommandExpr_Command(CreateVar("x", ObjectExpr_Str("u"))),
                   CommandExpr_ForLoop("Group", <<"a">>,
                       <<IterTargetExpr_Range(RangeExpr_Integer(0),
                             RangeExpr_Integer(sc.lens[1]))>>,
                       <<CommandExpr_Command(CreateVar("x",
                             ObjectExpr_Str("v"))),
                         CommandExpr_Command(AssignVar("x",
                             ObjectExpr_Str("w")))>>)>>
      [] sc.name = "dangle" ->
            \* y := "u"; ys := []; for b in 0..1 { xs := ["a"];
            \*   for a in xs { y = a } }; spawn "echo" y
            \* or with `push ys a` as the inner body, or with xs created
            \* before the loops
            <<CommandExpr_Command(CreateVar("y", ObjectExpr_Str("u"))),
              CommandExpr_Command(CreateVar("ys", ObjectExpr_List(<<>>)))>>
            \o (IF sc.limit = 2
                THEN <<CommandExpr_Command(CreateVar("xs",
                          ObjectExpr_List(<<ObjectExpr_Str("a")>>)))>>
                ELSE <<>>)
            \o <<CommandExpr_ForLoop("Group", <<"b">>,
                    <<IterTargetExpr_Range(RangeExpr_Integer(0),
                                           RangeExpr_Integer(1))>>,
                    (IF sc.limit = 2 THEN <<>>
                     ELSE <<CommandExpr_Command(CreateVar("xs",
                               ObjectExpr_List(<<ObjectExpr_Str("a")>>)))>>)
                    \o <<CommandExpr_ForLoop("Group", <<"a">>,
                            <<IterTargetExpr_Variable("xs")>>,
                            <<IF sc.limit = 1
                              THEN CommandExpr_Command(PushList("ys",
                                       ObjectExpr_Clone(VarFieldId_new("a"))))
                              ELSE CommandExpr_Command(AssignVar("y",
                                       ObjectExpr_Clone(VarFieldId_new("a"))))
                            >>)>>),
                CommandExpr_Command(Command(Command_Spawn(
                    SpawnExpr(Str("echo"),
                        <<ArgBuilder_String(<<Var("y")>>)>>))))>>
      [] sc.name = "cvar" ->
            \* visited := []; c := <start>..<end>; for a in c { push visited a }
            <<CreateVisited,
              CommandExpr_Command(CreateVar("c", ObjectExpr_Counter(
                  RangeExpr_Integer(RangeStart(sc.limit)),
                  RangeExpr_Integer(1 + sc.lens[1])))),
              CommandExpr_ForLoop("Group", <<"a">>,
                  <<IterTargetExpr_Variable("c")>>,
                  <<PushIters(sc.lens)>>)>>
      [] OTHER -> <<>>

\* Number of err_loop variants.
ErrLoopVariants == 0 .. 6

Scenarios ==
    {[name |-> "group", lens |-> l, limit |-> 0, timeout |-> -1] :
        l \in UNION {[1 .. k -> 0 .. MaxLen] : k \in 1 .. 2}}
    \cup {[name |-> "comb", lens |-> l, limit |-> 0, timeout |-> -1] :
        l \in UNION {[1 .. k -> 0 .. MaxLen] : k \in 2 .. 3}}
    \cup {[name |-> "range", lens |-> <<n>>, limit |-> v, timeout |-> -1] :
        n \in 0 .. MaxLen, v \in 0 .. 2}
    \cup {[name |-> "limit", lens |-> <<>>, limit |-> l, timeout |-> t] :
        l \in 0 .. 2, t \in {-1, 150}}
    \cup {[name |-> "sleep", lens |-> <<>>, limit |-> 0, timeout |-> 150]}
    \cup {[name |-> "shrink", lens |-> <<MaxLen, n>>, limit |-> 0, timeout |-> -1] :
        n \in 0 .. MaxLen - 1}
    \cup {[name |-> "if", lens |-> l, limit |-> 0, timeout |-> -1] :
        l \in UNION {[1 .. k -> 0 .. MaxLen] : k \in 1 .. 2}}
    \cup {[name |-> "if", lens |-> <<v>>, limit |-> 1, timeout |-> -1] :
        v \in 0 .. MaxLen}
    \cup {[name |-> "err_push", lens |-> <<>>, limit |-> b, timeout |-> -1] :
        b \in 0 .. 1}
    \cup {[name |-> "err_loop", lens |-> <<>>, limit |-> v, timeout |-> -1] :
        v \in ErrLoopVariants}
    \cup {[name |-> "nested", lens |-> <<>>, limit |-> v, timeout |-> -1] :
        v \in 0 .. 1}
    \cup {[name |-> "index", lens |-> <<e, b>>, limit |-> 0, timeout |-> -1] :
        e \in 0 .. MaxLen, b \in 0 .. MaxLen}
    \cup {[name |-> "leak", lens |-> <<>>, limit |-> l, timeout |-> -1] :
        l \in 1 .. 2}
    \cup {[name |-> "route", lens |-> <<>>, limit |-> v, timeout |-> -1] :
        v \in 0 .. 2}
    \cup {[name |-> "assign", lens |-> <<>>, limit |-> 0, timeout |-> -1]}
    \cup {[name |-> "dangle", lens |-> <<>>, limit |-> v, timeout |-> -1] :
        v \in 0 .. 2}
    \cup {[name |-> "cvar", lens |-> <<n>>, limit |-> v, timeout |-> -1] :
        n \in 0 .. MaxLen, v \in 0 .. 2}
    \cup {[name |-> "assign", lens |-> <<n>>, limit |-> 1, timeout |-> -1] :
        n \in 0 .. MaxLen}

\* ------------------------------------------------------------------------
\* State
\* ------------------------------------------------------------------------

VARIABLES
    scenario,     \* the program being run (never changes)
    program,      \* Program.0: its instructions
    counter,      \* Program::run: `counter`
    scopes,       \* ProgramState.scopes
    scope_cache,  \* ProgramState.scope_cache
    pc,           \* where the worker is: "run" (top of run's while loop),
                  \* "wait_head" / "wait_sleep" (wait_all's loop),
                  \* "sleep_head" / "sleep_sleep" (Sleep's loop), "returned",
                  \* "reset_head" / "reset_sleep" (reset's wait_all), "next"
                  \* (main's loop is about to start the next program)
    result,       \* what Program::run returned
    shutdown,     \* the Shutdown flag
    spawn_limit,  \* TestBed.spawn_limit
    processes,    \* TestBed.processes
    children,     \* every child started so far, in spawn order
    wait,         \* the locals of the wait loop the worker is in
    hooks,        \* how often run has called executable.execute / .finish /
                  \* .shutdown
    limitMark,    \* history: number of children started before the last
                  \* LimitSpawn
    cancelAt,     \* history: where the worker was when the flag was set
    signals,      \* history: what each call of Shutdown::shutdown returned
    var_names,    \* VarNames.0: the names in the order of their insertion
    timeout_loop, \* a TimeoutLoop (src/bed.rs) and what it was made from
    lastWait,     \* history: how the last wait_all ended
    bar,          \* a ProcessBar (src/bed/process.rs) and the threads using it
    run_all       \* the indices of a TestBed (src/commands.rs) in run_all

vars == <<scenario, program, counter, scopes, scope_cache, pc, result,
          shutdown, spawn_limit, processes, children, wait, hooks, limitMark,
          cancelAt, signals, var_names, timeout_loop, lastWait, bar,
          run_all>>

runVars == <<counter, scopes, scope_cache, pc, result, hooks>>

bedVars == <<spawn_limit, processes, children, wait, limitMark, lastWait>>

NoResult == [tag |-> "Running", idx |-> 0, err |-> Nil]

NoWait == [caller |-> "", duration |-> Nil, remaining |-> 0, elapsed |-> 0]

\* main: `state.new_scope()` for the globals, then `state.new_scope()`
\* before the command program's run.
Init ==
    /\ scenario \in Scenarios
    /\ program = build_commands_program(ScenarioExprs(scenario))
    /\ counter = 0
    /\ scopes = <<EmptyMap, EmptyMap>>
    /\ scope_cache = <<>>
    /\ pc = "run"
    /\ result = NoResult
    /\ shutdown = FALSE
    /\ spawn_limit = Nil
    /\ processes = <<>>
    /\ children = <<>>
    /\ wait = NoWait
    /\ hooks = [execute |-> 0, finish |-> 0, shutdown |-> 0]
    /\ limitMark = 0
    /\ cancelAt = Nil
    /\ signals = <<>>
    /\ var_names = <<>>
    /\ timeout_loop = Nil
    /\ lastWait = Nil
    /\ bar = Nil
    /\ run_all = Nil

\* A faulty reading of the flag that never sees it set.
is_shutdown_never == FALSE

\* Shutdown::is_shutdown
is_shutdown == shutdown

\* ------------------------------------------------------------------------
\* Environment
\* ------------------------------------------------------------------------

\* A faulty Shutdown::shutdown that stores true without reading the flag.
Shutdown_shutdown_store(flag) == [flag |-> TRUE, ret |-> FALSE]

\* Shutdown::shutdown: `swap(true)` sets the flag and returns what it was.
Shutdown_shutdown(flag) == [flag |-> TRUE, ret |-> flag]

\* The ctrl-c handler, once per signal: it calls Shutdown::shutdown and, if
\* the flag was set already, sends on main's channel.
CtrlC ==
    /\ pc # "returned"
    /\ Len(signals) < MaxSignals
    /\ shutdown' = Shutdown_shutdown(shutdown).flag
    /\ signals' = Append(signals, Shutdown_shutdown(shutdown).ret)
    /\ cancelAt' = IF shutdown THEN cancelAt
                   ELSE [pc |-> pc, caller |-> wait.caller,
                         tracked |-> Tracked(processes)]
    /\ UNCHANGED <<scenario, program, runVars, bedVars, var_names, timeout_loop,
                   bar, run_all>>

\* A running child exits on its own, with success or with code 1.
ChildExit ==
    \E c \in 1 .. Len(children), os \in {"exit0", "exit1"} :
        /\ pc # "returned"
        /\ children[c].os = "alive"
        /\ children' = [children EXCEPT ![c].os = os]
        /\ UNCHANGED <<scenario, program, runVars, shutdown, spawn_limit,
                       processes, wait, limitMark, cancelAt, signals, var_names, timeout_loop, lastWait,
                       bar, run_all>>

\* ------------------------------------------------------------------------
\* Program::run (src/program.rs)
\* ------------------------------------------------------------------------

\* The instruction the run is about to execute: the loop's condition holds
\* and the cancellation test at the top of the loop has passed.
Fetch(op) ==
    /\ pc = "run"
    /\ counter < Len(program)
    /\ ~is_shutdown
    /\ program[counter + 1].op = op

Instr == program[counter + 1]

State == ProgramState(scopes, scope_cache)

\* The instruction is done: `counter += 1`, or `counter = jump; continue`.
Continue(st, next) ==
    /\ scopes' = st.scopes
    /\ scope_cache' = st.scope_cache
    /\ counter' = next
    /\ UNCHANGED <<pc, result>>

\* A faulty abort that reports the index of the next instruction.
Abort_next(r) ==
    /\ result' = [tag |-> r.tag, idx |-> counter + 1,
                  err |-> IF r.tag = "Err" THEN r.err ELSE Nil]
    /\ pc' = "returned"
    /\ UNCHANGED <<counter, scopes, scope_cache>>

\* `return Err((counter, e))`, or the thread panics in the instruction.
Abort(r) ==
    /\ result' = [tag |-> r.tag, idx |-> counter,
                  err |-> IF r.tag = "Err" THEN r.err ELSE Nil]
    /\ pc' = "returned"
    /\ UNCHANGED <<counter, scopes, scope_cache>>

\* A faulty cancellation that runs the finish hook besides the shutdown
\* hook.
RunCancel_finish ==
    /\ pc = "run"
    /\ counter < Len(program)
    /\ is_shutdown
    /\ \E refused \in SUBSET Tracked(processes) :
          LET bed == TestBed_shutdown(processes, children, refused) IN
          /\ processes' = bed.processes
          /\ children' = bed.children
    /\ hooks' = [hooks EXCEPT !.shutdown = @ + 1, !.finish = @ + 1]
    /\ pc' = "returned"
    /\ result' = [NoResult EXCEPT !.tag = "Ok"]
    /\ UNCHANGED <<scenario, program, counter, scopes, scope_cache, shutdown,
                   spawn_limit, wait, limitMark, cancelAt, signals, var_names, timeout_loop, lastWait,
                   bar, run_all>>

\* The cancellation test at the top of the loop finds the flag set:
\* executable.shutdown(), return Ok(()).
RunCancel ==
    /\ pc = "run"
    /\ counter < Len(program)
    /\ is_shutdown
    /\ \E refused \in SUBSET Tracked(processes) :
          LET bed == TestBed_shutdown(processes, children, refused) IN
          /\ processes' = bed.processes
          /\ children' = bed.children
    /\ hooks' = [hooks EXCEPT !.shutdown = @ + 1]
    /\ pc' = "returned"
    /\ result' = [NoResult EXCEPT !.tag = "Ok"]
    /\ UNCHANGED <<scenario, program, counter, scopes, scope_cache, shutdown,
                   spawn_limit, wait, limitMark, cancelAt, signals, var_names, timeout_loop, lastWait,
                   bar, run_all>>

ExecPushScope ==
    /\ Fetch("PushScope")
    /\ Continue(new_scope(State), counter + 1)
    /\ UNCHANGED <<scenario, program, shutdown, hooks, bedVars, cancelAt, signals, var_names, timeout_loop,
                   bar, run_all>>

ExecPopScope ==
    /\ Fetch("PopScope")
    /\ Continue(pop_scope(State), counter + 1)
    /\ UNCHANGED <<scenario, program, shutdown, hooks, bedVars, cancelAt, signals, var_names, timeout_loop,
                   bar, run_all>>

\* A faulty PushList that puts the value in front of the list.
ExecPushList_front ==
    /\ Fetch("PushList")
    /\ LET object == ObjectExpr_evaluate(Instr.object, scopes)
           found == get_value(scopes, Instr.target)
       IN  IF object.tag # "Ok" THEN Abort(object)
           ELSE IF found.tag = "None"
                THEN Abort(Err("MissingVariable", Instr.target))
           ELSE IF found.val.object.kind # "List"
                THEN Abort(Err("NotAList", ""))
           ELSE Continue(
                    ProgramState(
                        Bind(scopes, found.val.scope, Instr.target,
                             List(<<object.val>> \o found.val.object.items)),
                        scope_cache),
                    counter + 1)
    /\ UNCHANGED <<scenario, program, shutdown, hooks, bedVars, cancelAt, signals, var_names, timeout_loop,
                   bar, run_all>>

ExecPushList ==
    /\ Fetch("PushList")
    /\ LET object == ObjectExpr_evaluate(Instr.object, scopes)
           found == get_value(scopes, Instr.target)
       IN  IF object.tag # "Ok" THEN Abort(object)
           ELSE IF found.tag = "None"
                THEN Abort(Err("MissingVariable", Instr.target))
           ELSE IF found.val.object.kind # "List"
                THEN Abort(Err("NotAList", ""))
           ELSE Continue(
                    ProgramState(
                        Bind(scopes, found.val.scope, Instr.target,
                             List(Append(found.val.object.items, object.val))),
                        scope_cache),
                    counter + 1)
    /\ UNCHANGED <<scenario, program, shutdown, hooks, bedVars, cancelAt, signals, var_names, timeout_loop,
                   bar, run_all>>

ExecCreateVar ==
    /\ Fetch("CreateVar")
    /\ LET eval == ObjectExpr_evaluate(Instr.value, scopes) IN
       IF eval.tag # "Ok" THEN Abort(eval)
       ELSE IF Instr.scope = Nil
            THEN Continue(insert_var(State, Instr.target, eval.val, Nil),
                          counter + 1)
       ELSE IF Instr.scope.n < Len(scopes)
            THEN Continue(ProgramState(Bind(scopes, Instr.scope.n, Instr.target,
                                            eval.val), scope_cache),
                          counter + 1)
       ELSE Continue(State, counter + 1)
    /\ UNCHANGED <<scenario, program, shutdown, hooks, bedVars, cancelAt, signals, var_names, timeout_loop,
                   bar, run_all>>

ExecAssignVar ==
    /\ Fetch("AssignVar")
    /\ LET eval == ObjectExpr_evaluate(Instr.value, scopes)
           found == get_value(scopes, Instr.target)
       IN  IF eval.tag # "Ok" THEN Abort(eval)
           ELSE IF Instr.scope = Nil
                THEN IF found.tag = "None" THEN Continue(State, counter + 1)
                     ELSE Continue(ProgramState(
                                       Bind(scopes, found.val.scope, Instr.target,
                                            eval.val), scope_cache),
                                   counter + 1)
           ELSE IF /\ Instr.scope.n < Len(scopes)
                   /\ Instr.target \in DOMAIN scopes[Instr.scope.n + 1]
                THEN Continue(ProgramState(
                                  Bind(scopes, Instr.scope.n, Instr.target,
                                       eval.val), scope_cache),
                              counter + 1)
           ELSE Continue(State, counter + 1)
    /\ UNCHANGED <<scenario, program, shutdown, hooks, bedVars, cancelAt, signals, var_names, timeout_loop,
                   bar, run_all>>

\* The length StartIter and Increment take of a variable target
\* (Some(len), or None when it is neither a list nor a counter).
TargetLen(object) ==
    CASE object.kind = "List" -> Some(Len(object.items))
      [] object.kind = "Counter" -> Some(Counter_len(object))
      [] OTHER -> None

ExecStartIterVariable ==
    /\ Fetch("StartIter")
    /\ Instr.target.kind = "Variable"
    /\ LET found == get_value(scopes, Instr.target.var) IN
       IF found.tag = "None"
       THEN Abort(Err("MissingVariable", Instr.target.var))
       ELSE LET len == TargetLen(found.val.object) IN
            IF len.tag = "None" THEN Abort(Err("NotAList", ""))
            ELSE IF len.val > 0
                 THEN Continue(insert_var(State, Instr.iter,
                                   VariableRef(found.val.scope,
                                               Instr.target.var, 0), Nil),
                               counter + 1)
            ELSE Continue(State, Instr.jump)
    /\ UNCHANGED <<scenario, program, shutdown, hooks, bedVars, cancelAt, signals, var_names, timeout_loop,
                   bar, run_all>>

ExecIncrementVariable ==
    /\ Fetch("Increment")
    /\ Instr.target.kind = "Variable"
    /\ LET found == get_value(scopes, Instr.target.var)
           iter_var == get_value(scopes, Instr.iter)
       IN  IF found.tag = "None"
           THEN Abort(Err("MissingVariable", Instr.target.var))
           ELSE LET len == TargetLen(found.val.object) IN
                IF len.tag = "None" THEN Abort(Err("NotAList", ""))
                ELSE IF iter_var.tag = "None"
                     THEN Abort(Err("MissingVariable", Instr.iter))
                ELSE IF iter_var.val.object.kind # "Ref"
                     THEN Abort(Err("NotARef", ""))
                ELSE LET offset == iter_var.val.object.offset + 1
                         st == ProgramState(
                                   Bind(scopes, iter_var.val.scope, Instr.iter,
                                        [iter_var.val.object
                                            EXCEPT !.offset = offset]),
                                   scope_cache)
                     IN  IF offset >= len.val THEN Continue(st, Instr.jump)
                         ELSE Continue(st, counter + 1)
    /\ UNCHANGED <<scenario, program, shutdown, hooks, bedVars, cancelAt, signals, var_names, timeout_loop,
                   bar, run_all>>

ExecStartIterRange ==
    /\ Fetch("StartIter")
    /\ Instr.target.kind = "Range"
    /\ LET start == RangeExpr_evaluate(Instr.target.start, scopes)
           end == RangeExpr_evaluate(Instr.target.end, scopes)
       IN  IF start.tag # "Ok" THEN Abort(start)
           ELSE IF end.tag # "Ok" THEN Abort(end)
           ELSE IF start.val >= end.val THEN Continue(State, Instr.jump)
           ELSE Continue(insert_var(State, Instr.iter,
                                    Counter(0, start.val, end.val), Nil),
                         counter + 1)
    /\ UNCHANGED <<scenario, program, shutdown, hooks, bedVars, cancelAt, signals, var_names, timeout_loop,
                   bar, run_all>>

\* A faulty Increment that makes a pass for the upper bound too.
ExecIncrementRange_inclusive ==
    /\ Fetch("Increment")
    /\ Instr.target.kind = "Range"
    /\ LET iter_var == get_value(scopes, Instr.iter) IN
       IF iter_var.tag = "None"
       THEN Abort(Err("MissingVariable", Instr.iter))
       ELSE IF iter_var.val.object.kind # "Counter"
            THEN Abort(Err("NotARef", ""))
       ELSE LET range_counter == [iter_var.val.object
                                     EXCEPT !.offset = @ + 1]
                st == ProgramState(Bind(scopes, iter_var.val.scope, Instr.iter,
                                        range_counter), scope_cache)
            IN  IF Counter_idx(range_counter) > range_counter.end
                THEN Continue(st, Instr.jump)
                ELSE Continue(st, counter + 1)
    /\ UNCHANGED <<scenario, program, shutdown, hooks, bedVars, cancelAt, signals, var_names, timeout_loop,
                   bar, run_all>>

ExecIncrementRange ==
    /\ Fetch("Increment")
    /\ Instr.target.kind = "Range"
    /\ LET iter_var == get_value(scopes, Instr.iter) IN
       IF iter_var.tag = "None"
       THEN Abort(Err("MissingVariable", Instr.iter))
       ELSE IF iter_var.val.object.kind # "Counter"
            THEN Abort(Err("NotARef", ""))
       ELSE LET range_counter == [iter_var.val.object
                                     EXCEPT !.offset = @ + 1]
                st == ProgramState(Bind(scopes, iter_var.val.scope, Instr.iter,
                                        range_counter), scope_cache)
            IN  IF Counter_idx(range_counter) >= range_counter.end
                THEN Continue(st, Instr.jump)
                ELSE Continue(st, counter + 1)
    /\ UNCHANGED <<scenario, program, shutdown, hooks, bedVars, cancelAt, signals, var_names, timeout_loop,
                   bar, run_all>>

\* A faulty ConditionalJump that skips the block only when the base is
\* "true".
ExecConditionalJump_true ==
    /\ Fetch("ConditionalJump")
    /\ LET object == get_object(scopes, Instr.cond)
           value == IF object.tag # "Ok" THEN object
                    ELSE IF object.val.kind = "Ref"
                         THEN evaluate_ref_unwrap(scopes, object.val)
                    ELSE object
       IN  IF value.tag # "Ok" THEN Abort(value)
           ELSE IF value.val.kind # "Struct" THEN Abort(Err("NotAStruct", ""))
           ELSE IF value.val.base = "true" THEN Continue(State, Instr.jump)
           ELSE Continue(State, counter + 1)
    /\ UNCHANGED <<scenario, program, shutdown, hooks, bedVars, cancelAt,
                   signals, var_names, timeout_loop, bar, run_all>>

ExecConditionalJump ==
    /\ Fetch("ConditionalJump")
    /\ LET object == get_object(scopes, Instr.cond)
           value == IF object.tag # "Ok" THEN object
                    ELSE IF object.val.kind = "Ref"
                         THEN evaluate_ref_unwrap(scopes, object.val)
                    ELSE object
       IN  IF value.tag # "Ok" THEN Abort(value)
           ELSE IF value.val.kind # "Struct" THEN Abort(Err("NotAStruct", ""))
           ELSE IF value.val.base # "false" THEN Continue(State, Instr.jump)
           ELSE Continue(State, counter + 1)
    /\ UNCHANGED <<scenario, program, shutdown, hooks, bedVars, cancelAt, signals, var_names, timeout_loop,
                   bar, run_all>>

ExecGoto ==
    /\ Fetch("Goto")
    /\ Continue(State, Instr.jump)
    /\ UNCHANGED <<scenario, program, shutdown, hooks, bedVars, cancelAt, signals, var_names, timeout_loop,
                   bar, run_all>>

\* ------------------------------------------------------------------------
\* TestBed as Executable<Command> (src/bed/mod.rs)
\* ------------------------------------------------------------------------

FetchCommand(kind) ==
    /\ Fetch("Command")
    /\ Instr.command.kind = kind

\* run calls executable.execute
Executed == hooks' = [hooks EXCEPT !.execute = @ + 1]

\* Command::LimitSpawn
ExecLimitSpawn ==
    /\ FetchCommand("LimitSpawn")
    /\ spawn_limit' = [kind |-> "Some", n |-> Instr.command.limit]
    /\ limitMark' = Len(children)
    /\ Continue(State, counter + 1)
    /\ Executed
    /\ UNCHANGED <<scenario, program, shutdown, processes, children, wait,
                   cancelAt, signals, var_names, timeout_loop, lastWait, bar,
                   run_all>>

\* A faulty entry of wait_all that keeps `remaining` as given, without
\* `remaining.max(1)`.
EnterWaitAll_given(caller, duration, remaining) ==
    /\ pc' = "wait_head"
    /\ wait' = [caller |-> caller, duration |-> duration,
                remaining |-> remaining, elapsed |-> 0]
    /\ UNCHANGED <<counter, scopes, scope_cache, result>>

\* wait_all is entered: `now = Instant::now()`, `remaining.max(1)`.
EnterWaitAll(caller, duration, remaining) ==
    /\ pc' = "wait_head"
    /\ wait' = [caller |-> caller, duration |-> duration,
                remaining |-> IF remaining > 1 THEN remaining ELSE 1,
                elapsed |-> 0]
    /\ UNCHANGED <<counter, scopes, scope_cache, result>>

\* A faulty Spawn that ends the run with an error when the OS does not
\* start the executable.
Spawn_abort(procs, chld, launched) ==
    LET process == Spawn_evaluate(Instr.command.spawn, scopes) IN
    IF process.tag # "Ok"
    THEN /\ Abort(process)
         /\ processes' = procs
         /\ children' = chld
    ELSE IF launched
    THEN /\ counter' = counter + 1
         /\ pc' = "run"
         /\ UNCHANGED <<scopes, scope_cache, result>>
         /\ \E openFailed \in SUBSET {"stdout", "stderr"} :
               children' = Append(chld, ProcessInfo_run(process.val,
                                                        openFailed))
         /\ processes' = Append(procs, ProcessInfo(Len(chld) + 1))
    ELSE /\ Abort(Err("MissingFile", process.val.command))
         /\ processes' = procs
         /\ children' = chld

\* The rest of Command::Spawn, from `spawn.evaluate(stack)?` on; `launched`
\* says whether the OS started the executable.
Spawn(procs, chld, launched) ==
    LET process == Spawn_evaluate(Instr.command.spawn, scopes) IN
    IF process.tag # "Ok"
    THEN /\ Abort(process)
         /\ processes' = procs
         /\ children' = chld
    ELSE /\ counter' = counter + 1
         /\ pc' = "run"
         /\ UNCHANGED <<scopes, scope_cache, result>>
         /\ IF launched
            THEN /\ \E openFailed \in SUBSET {"stdout", "stderr"} :
                       children' = Append(chld, ProcessInfo_run(process.val,
                                                                openFailed))
                 /\ processes' = Append(procs, ProcessInfo(Len(chld) + 1))
            ELSE /\ children' = chld
                 /\ processes' = procs

\* Command::Spawn without a wait for admission.
ExecSpawn ==
    /\ FetchCommand("Spawn")
    /\ ~(spawn_limit # Nil /\ Len(processes) >= spawn_limit.n)
    /\ \E launched \in BOOLEAN : Spawn(processes, children, launched)
    /\ Executed
    /\ UNCHANGED <<scenario, program, shutdown, spawn_limit, wait, limitMark,
                   cancelAt, signals, var_names, timeout_loop, lastWait, bar,
                   run_all>>

\* Command::Spawn at the limit: wait_all(None, limit, shutdown) first.
ExecSpawnWait ==
    /\ FetchCommand("Spawn")
    /\ spawn_limit # Nil /\ Len(processes) >= spawn_limit.n
    /\ EnterWaitAll("Spawn", Nil, spawn_limit.n)
    /\ Executed
    /\ UNCHANGED <<scenario, program, shutdown, spawn_limit, processes,
                   children, limitMark, cancelAt, signals, var_names, timeout_loop, lastWait,
                   bar, run_all>>

\* Command::WaitAll
ExecWaitAll ==
    /\ FetchCommand("WaitAll")
    /\ EnterWaitAll("WaitAll", Instr.command.timeout, 0)
    /\ Executed
    /\ UNCHANGED <<scenario, program, shutdown, spawn_limit, processes,
                   children, limitMark, cancelAt, signals, var_names, timeout_loop, lastWait,
                   bar, run_all>>

\* The program counter has reached the end: executable.finish, which is
\* wait_all(None, 0, shutdown), and then `Ok(())`.
RunFinish ==
    /\ pc = "run"
    /\ counter >= Len(program)
    /\ hooks' = [hooks EXCEPT !.finish = @ + 1]
    /\ EnterWaitAll("finish", Nil, 0)
    /\ UNCHANGED <<scenario, program, shutdown, spawn_limit, processes,
                   children, limitMark, cancelAt, signals, var_names, timeout_loop, lastWait,
                   bar, run_all>>

\* A faulty loop condition: wait_all never waits.
WaitCondition_never == FALSE

\* wait_all's `while` condition
WaitCondition ==
    /\ Len(processes) >= wait.remaining
    /\ IF wait.duration = Nil THEN TRUE ELSE wait.elapsed < wait.duration.ms

\* wait_all has returned to its caller with the processes and children
\* given: the caller's remaining code.
AfterWaitAll(procs, chld) ==
    CASE wait.caller = "Spawn" ->
            \E launched \in BOOLEAN : Spawn(procs, chld, launched)
      [] wait.caller = "WaitAll" ->
            /\ counter' = counter + 1
            /\ pc' = "run"
            /\ processes' = procs
            /\ children' = chld
            /\ UNCHANGED <<scopes, scope_cache, result>>
      [] OTHER ->
            /\ pc' = "returned"
            /\ result' = [NoResult EXCEPT !.tag = "Ok"]
            /\ processes' = procs
            /\ children' = chld
            /\ UNCHANGED <<counter, scopes, scope_cache>>

\* A pass of wait_all's loop finds the flag set: `kill = true; break`, then
\* Self::shutdown.
WaitAllCancel ==
    /\ pc = "wait_head"
    /\ WaitCondition
    /\ is_shutdown
    /\ \E refused \in SUBSET Tracked(processes) :
          LET bed == TestBed_shutdown(processes, children, refused) IN
          AfterWaitAll(bed.processes, bed.children)
    /\ hooks' = hooks
    /\ wait' = NoWait
    /\ lastWait' = [caller |-> wait.caller, outcome |-> "cancel",
                    tracked |-> Tracked(processes)]
    /\ UNCHANGED <<scenario, program, shutdown, spawn_limit, limitMark,
                   cancelAt, signals, var_names, timeout_loop, bar, run_all>>

\* A faulty pass of wait_all's loop that polls and sleeps without testing
\* the flag.
WaitAllPoll_unchecked ==
    /\ pc = "wait_head"
    /\ WaitCondition
    /\ \E pollFailed \in SUBSET Tracked(processes) :
          LET bed == PollLoop(processes, children, 0, pollFailed) IN
          /\ processes' = bed.processes
          /\ children' = bed.children
    /\ pc' = "wait_sleep"
    /\ UNCHANGED <<scenario, program, counter, scopes, scope_cache, result,
                   hooks, shutdown, spawn_limit, wait, limitMark, cancelAt,
                   signals, var_names, timeout_loop, lastWait, bar, run_all>>

\* A pass of wait_all's loop polls every process and goes to sleep.
WaitAllPoll ==
    /\ pc = "wait_head"
    /\ WaitCondition
    /\ ~is_shutdown
    /\ \E pollFailed \in SUBSET Tracked(processes) :
          LET bed == PollLoop(processes, children, 0, pollFailed) IN
          /\ processes' = bed.processes
          /\ children' = bed.children
    /\ pc' = "wait_sleep"
    /\ UNCHANGED <<scenario, program, counter, scopes, scope_cache, result,
                   hooks, shutdown, spawn_limit, wait, limitMark, cancelAt, signals, var_names, timeout_loop,
                   lastWait, bar, run_all>>

\* std::thread::sleep(SLEEP_TIME) in wait_all.  With no timeout the
\* duration is u64::MAX ms and the elapsed time is not tracked.
WaitAllSleep ==
    /\ pc = "wait_sleep"
    /\ pc' = "wait_head"
    /\ wait' = [wait EXCEPT !.elapsed =
                   IF wait.duration = Nil THEN @ ELSE @ + SLEEP_TIME]
    /\ UNCHANGED <<scenario, program, counter, scopes, scope_cache, result,
                   hooks, shutdown, spawn_limit, processes, children,
                   limitMark, cancelAt, signals, var_names, timeout_loop, lastWait,
                   bar, run_all>>

\* wait_all's loop ends because its condition is false.
WaitAllReturn ==
    /\ pc = "wait_head"
    /\ ~WaitCondition
    /\ AfterWaitAll(processes, children)
    /\ hooks' = hooks
    /\ wait' = NoWait
    /\ lastWait' = [caller |-> wait.caller,
                    outcome |-> IF Len(processes) >= wait.remaining
                                THEN "timeout" ELSE "drained",
                    tracked |-> Tracked(processes)]
    /\ UNCHANGED <<scenario, program, shutdown, spawn_limit, limitMark,
                   cancelAt, signals, var_names, timeout_loop, bar, run_all>>

\* Command::Sleep: `start = Instant::now()`
ExecSleep ==
    /\ FetchCommand("Sleep")
    /\ pc' = "sleep_head"
    /\ wait' = [caller |-> "Sleep", duration |-> SomeMs(Instr.command.millis),
                remaining |-> 0, elapsed |-> 0]
    /\ Executed
    /\ UNCHANGED <<scenario, program, counter, scopes, scope_cache, result,
                   shutdown, spawn_limit, processes, children,
                   limitMark, cancelAt, signals, var_names, timeout_loop, lastWait,
                   bar, run_all>>

\* A pass of Sleep's loop: the flag is clear, so sleep.
SleepPoll ==
    /\ pc = "sleep_head"
    /\ wait.elapsed < wait.duration.ms
    /\ ~is_shutdown
    /\ pc' = "sleep_sleep"
    /\ UNCHANGED <<scenario, program, counter, scopes, scope_cache, result,
                   hooks, shutdown, spawn_limit, processes, children, wait,
                   limitMark, cancelAt, signals, var_names, timeout_loop, lastWait,
                   bar, run_all>>

\* std::thread::sleep(SLEEP_TIME) in Sleep
SleepSleep ==
    /\ pc = "sleep_sleep"
    /\ pc' = "sleep_head"
    /\ wait' = [wait EXCEPT !.elapsed = @ + SLEEP_TIME]
    /\ UNCHANGED <<scenario, program, counter, scopes, scope_cache, result,
                   hooks, shutdown, spawn_limit, processes, children,
                   limitMark, cancelAt, signals, var_names, timeout_loop, lastWait,
                   bar, run_all>>

\* Sleep's loop ends: the time is up, or the flag is set (`break`).
SleepReturn ==
    /\ pc = "sleep_head"
    /\ ~(wait.elapsed < wait.duration.ms) \/ is_shutdown
    /\ pc' = "run"
    /\ counter' = counter + 1
    /\ wait' = NoWait
    /\ UNCHANGED <<scenario, program, scopes, scope_cache, result, hooks,
                   shutdown, spawn_limit, processes, children, limitMark,
                   cancelAt, signals, var_names, timeout_loop, lastWait, bar,
                   run_all>>

Next ==
    \/ CtrlC
    \/ ChildExit
    \/ RunCancel
    \/ ExecPushScope
    \/ ExecPopScope
    \/ ExecPushList
    \/ ExecCreateVar
    \/ ExecAssignVar
    \/ ExecStartIterVariable
    \/ ExecIncrementVariable
    \/ ExecStartIterRange
    \/ ExecIncrementRange
    \/ ExecConditionalJump
    \/ ExecGoto
    \/ ExecLimitSpawn
    \/ ExecSpawn
    \/ ExecSpawnWait
    \/ ExecWaitAll
    \/ RunFinish
    \/ WaitAllCancel
    \/ WaitAllPoll
    \/ WaitAllSleep
    \/ WaitAllReturn
    \/ ExecSleep
    \/ SleepPoll
    \/ SleepSleep
    \/ SleepReturn

Spec == Init /\ [][Next]_vars

\* ------------------------------------------------------------------------
\* main's loop over the command programs (src/main.rs), the run of a program
\* and what main does when it has returned
\* ------------------------------------------------------------------------

\* A faulty reset that leaves the spawn limit set.
TestBed_reset_keep(procs, limit) ==
    [processes |-> <<>>, spawn_limit |-> limit]

\* TestBed::reset after its wait_all: `self.processes.clear()`,
\* `self.spawn_limit = None`.
TestBed_reset(procs, limit) ==
    [processes |-> <<>>, spawn_limit |-> Nil]

\* The run has returned Ok or Err to main: `state.pop_scope()`, and
\* test_bed.reset enters wait_all(None, 0, shutdown).
MainReset ==
    /\ pc = "returned"
    /\ result.tag \in {"Ok", "Err"}
    /\ scopes' = pop_scope(State).scopes
    /\ scope_cache' = pop_scope(State).scope_cache
    /\ pc' = "reset_head"
    /\ wait' = [caller |-> "reset", duration |-> Nil, remaining |-> 1,
                elapsed |-> 0]
    /\ UNCHANGED <<scenario, program, counter, result, hooks, shutdown,
                   spawn_limit, processes, children, limitMark, cancelAt,
                   signals, var_names, timeout_loop, lastWait, bar, run_all>>

\* A pass of reset's wait_all finds the flag set: Self::shutdown, then the
\* rest of reset.
ResetCancel ==
    /\ pc = "reset_head"
    /\ WaitCondition
    /\ is_shutdown
    /\ \E refused \in SUBSET Tracked(processes) :
          LET bed == TestBed_shutdown(processes, children, refused) IN
          /\ processes' = TestBed_reset(bed.processes, spawn_limit).processes
          /\ children' = bed.children
    /\ spawn_limit' = TestBed_reset(processes, spawn_limit).spawn_limit
    /\ pc' = "next"
    /\ wait' = NoWait
    /\ UNCHANGED <<scenario, program, counter, scopes, scope_cache, result,
                   hooks, shutdown, limitMark, cancelAt, signals, var_names, timeout_loop, lastWait,
                   bar, run_all>>

\* A pass of reset's wait_all polls every process and goes to sleep.
ResetPoll ==
    /\ pc = "reset_head"
    /\ WaitCondition
    /\ ~is_shutdown
    /\ \E pollFailed \in SUBSET Tracked(processes) :
          LET bed == PollLoop(processes, children, 0, pollFailed) IN
          /\ processes' = bed.processes
          /\ children' = bed.children
    /\ pc' = "reset_sleep"
    /\ UNCHANGED <<scenario, program, counter, scopes, scope_cache, result,
                   hooks, shutdown, spawn_limit, wait, limitMark, cancelAt,
                   signals, var_names, timeout_loop, lastWait, bar, run_all>>

\* std::thread::sleep(SLEEP_TIME) in reset's wait_all.
ResetSleep ==
    /\ pc = "reset_sleep"
    /\ pc' = "reset_head"
    /\ UNCHANGED <<scenario, program, counter, scopes, scope_cache, result,
                   hooks, shutdown, spawn_limit, processes, children, wait,
                   limitMark, cancelAt, signals, var_names, timeout_loop, lastWait,
                   bar, run_all>>

\* reset's wait_all ends with nothing tracked; the rest of reset, and main
\* is at the top of its loop for the next command program.
ResetReturn ==
    /\ pc = "reset_head"
    /\ ~WaitCondition
    /\ processes' = TestBed_reset(processes, spawn_limit).processes
    /\ spawn_limit' = TestBed_reset(processes, spawn_limit).spawn_limit
    /\ pc' = "next"
    /\ wait' = NoWait
    /\ UNCHANGED <<scenario, program, counter, scopes, scope_cache, result,
                   hooks, shutdown, children, limitMark, cancelAt, signals, var_names, timeout_loop,
                   lastWait, bar, run_all>>

\* A run, and main's loop after it; the ctrl-c handler and the children
\* go on as during the run.
NextMain ==
    \/ Next
    \/ MainReset
    \/ ResetCancel
    \/ ResetPoll
    \/ ResetSleep
    \/ ResetReturn

SpecMain == Init /\ [][NextMain]_vars

\* main's worker thread after its last command program: `send.send(()).ok()`,
\* the completion notification.
MainSend ==
    /\ pc = "next"
    /\ pc' = "sent"
    /\ UNCHANGED <<scenario, program, counter, scopes, scope_cache, result,
                   hooks, shutdown, spawn_limit, processes, children, wait,
                   limitMark, cancelAt, signals, var_names, timeout_loop,
                   lastWait, bar, run_all>>

\* The ctrl-c handler runs on its own thread: a signal between the return
\* of Program::run and main's next statement, or after the worker thread
\* has panicked.
CtrlCReturned ==
    /\ pc = "returned"
    /\ Len(signals) < MaxSignals
    /\ shutdown' = Shutdown_shutdown(shutdown).flag
    /\ signals' = Append(signals, Shutdown_shutdown(shutdown).ret)
    /\ cancelAt' = IF shutdown THEN cancelAt
                   ELSE [pc |-> pc, caller |-> wait.caller,
                         tracked |-> Tracked(processes)]
    /\ UNCHANGED <<scenario, program, runVars, bedVars, var_names,
                   timeout_loop, bar, run_all>>

\* The worker thread from the start of a command program to its completion
\* notification, with the ctrl-c handler and the children.
NextWorker ==
    \/ NextMain
    \/ CtrlCReturned
    \/ MainSend

\* A step of the worker thread: any step but a signal or a child's exit.
WorkerStep == NextWorker /\ ~CtrlC /\ ~CtrlCReturned /\ ~ChildExit

\* The worker thread is scheduled as long as it can take a step; signals
\* and exits of children happen or not.
SpecWorker == Init /\ [][NextWorker]_vars /\ WF_vars(WorkerStep)


\* ------------------------------------------------------------------------
\* The process API on its own (src/bed/process.rs): processes that have been
\* started, and any sequence of try_wait, kill and set_state calls on them.
\* ------------------------------------------------------------------------

\* ProcessInfo::run has started every process; nothing else is going on.
InitProc ==
    /\ scenario = [name |-> "processes", lens |-> <<>>, limit |-> 0,
                   timeout |-> -1]
    /\ program = <<>>
    /\ counter = 0
    /\ scopes = <<>>
    /\ scope_cache = <<>>
    /\ pc = "run"
    /\ result = NoResult
    /\ shutdown = FALSE
    /\ spawn_limit = Nil
    /\ children = [c \in 1 .. MaxProcs |-> NewChild("job", <<FormatInt(c)>>)]
    /\ processes = [c \in 1 .. MaxProcs |-> ProcessInfo(c)]
    /\ wait = NoWait
    /\ hooks = [execute |-> 0, finish |-> 0, shutdown |-> 0]
    /\ limitMark = 0
    /\ cancelAt = Nil
    /\ signals = <<>>
    /\ var_names = <<>>
    /\ timeout_loop = Nil
    /\ lastWait = Nil
    /\ bar = Nil
    /\ run_all = Nil

\* The states set_state can be called with.
ProcessStates ==
    {ProcessState_Running, ProcessState_Killed, ProcessState_Error,
     ProcessState_Failed(1), ProcessState_Finished}

\* A call of ProcessInfo::try_wait
ProcTryWait ==
    \E k \in 1 .. Len(processes), failed \in BOOLEAN :
        /\ children' = ProcessInfo_try_wait(processes[k], children,
                                            failed).children
        /\ UNCHANGED <<scenario, program, runVars, shutdown, spawn_limit,
                       processes, wait, limitMark, cancelAt, signals, var_names, timeout_loop, lastWait,
                       bar, run_all>>

\* A call of ProcessInfo::kill
ProcKill ==
    \E k \in 1 .. Len(processes), refused \in BOOLEAN :
        LET r == ProcessInfo_kill(processes[k], children, refused) IN
        /\ processes' = [processes EXCEPT ![k] = r.info]
        /\ children' = r.children
        /\ UNCHANGED <<scenario, program, runVars, shutdown, spawn_limit,
                       wait, limitMark, cancelAt, signals, var_names, timeout_loop, lastWait,
                       bar, run_all>>

\* A call of ProcessBar::set_state
ProcSetState ==
    \E k \in 1 .. Len(processes), state \in ProcessStates :
        /\ children' = [children EXCEPT ![processes[k].child].state =
                                            ProcessBar_set_state(@, state)]
        /\ UNCHANGED <<scenario, program, runVars, shutdown, spawn_limit,
                       processes, wait, limitMark, cancelAt, signals, var_names, timeout_loop, lastWait,
                       bar, run_all>>

NextProc ==
    \/ ChildExit
    \/ ProcTryWait
    \/ ProcKill
    \/ ProcSetState

SpecProc == InitProc /\ [][NextProc]_vars

\* ------------------------------------------------------------------------
\* The scope stack on its own (src/program.rs): a ProgramState, and any
\* sequence of new_scope, pop_scope, insert_var and set_var calls on it.
\* ------------------------------------------------------------------------

\* ProgramState::new
InitScopes ==
    /\ scenario = [name |-> "scopes", lens |-> <<>>, limit |-> 0,
                   timeout |-> -1]
    /\ program = <<>>
    /\ counter = 0
    /\ scopes = <<>>
    /\ scope_cache = <<>>
    /\ pc = "run"
    /\ result = NoResult
    /\ shutdown = FALSE
    /\ spawn_limit = Nil
    /\ children = <<>>
    /\ processes = <<>>
    /\ wait = NoWait
    /\ hooks = [execute |-> 0, finish |-> 0, shutdown |-> 0]
    /\ limitMark = 0
    /\ cancelAt = Nil
    /\ signals = <<>>
    /\ var_names = <<>>
    /\ timeout_loop = Nil
    /\ lastWait = Nil
    /\ bar = Nil
    /\ run_all = Nil

\* The names and the values the calls are made with.
ScopeNames == {"a", "b"}

ScopeValues == {Object_new("v"), Object_new("w")}

\* A call of ProgramState::new_scope
ScopeNew ==
    /\ Len(scopes) < MaxDepth
    /\ scopes' = new_scope(State).scopes
    /\ scope_cache' = new_scope(State).scope_cache
    /\ UNCHANGED <<scenario, program, counter, pc, result, hooks, shutdown,
                   bedVars, cancelAt, signals, var_names, timeout_loop, bar,
                   run_all>>

\* A call of ProgramState::pop_scope
ScopePop ==
    /\ scopes' = pop_scope(State).scopes
    /\ scope_cache' = pop_scope(State).scope_cache
    /\ UNCHANGED <<scenario, program, counter, pc, result, hooks, shutdown,
                   bedVars, cancelAt, signals, var_names, timeout_loop, bar,
                   run_all>>

\* A call of ProgramState::insert_var, into the innermost scope or into the
\* scope of a given index
ScopeInsert ==
    \E id \in ScopeNames, var \in ScopeValues,
       scope \in {Nil} \cup {[kind |-> "Some", n |-> i] : i \in 0 .. MaxDepth - 1} :
        /\ scopes' = insert_var(State, id, var, scope).scopes
        /\ scope_cache' = insert_var(State, id, var, scope).scope_cache
        /\ UNCHANGED <<scenario, program, counter, pc, result, hooks,
                       shutdown, bedVars, cancelAt, signals, var_names, timeout_loop,
                       bar, run_all>>

\* A call of ProgramState::set_var, on a variable or on a property of the
\* Struct it is bound to; an Err leaves the state as it is.
ScopeSet ==
    \E id \in ScopeNames, value \in ScopeValues,
       property \in {Nil, [kind |-> "Some", id |-> "p"]} :
        /\ IF set_var(State, id, property, value).tag = "Ok"
           THEN /\ scopes' = set_var(State, id, property, value).val.scopes
                /\ scope_cache' =
                       set_var(State, id, property, value).val.scope_cache
           ELSE UNCHANGED <<scopes, scope_cache>>
        /\ UNCHANGED <<scenario, program, counter, pc, result, hooks,
                       shutdown, bedVars, cancelAt, signals, var_names, timeout_loop,
                       bar, run_all>>

NextScopes ==
    \/ ScopeNew
    \/ ScopePop
    \/ ScopeInsert
    \/ ScopeSet

SpecScopes == InitScopes /\ [][NextScopes]_vars

\* ------------------------------------------------------------------------
\* The table of names on its own (src/program.rs): any sequence of
\* VarNames::replace calls, as the parser makes them.
\* ------------------------------------------------------------------------

\* The position of an item of an IndexSet (0-based), or None
get_index_of(set, name) ==
    IF \E i \in 1 .. Len(set) : set[i] = name
    THEN Some((CHOOSE i \in 1 .. Len(set) : set[i] = name) - 1)
    ELSE None

\* A faulty insertion that takes the place of the last name inserted.
insert_full_last(set, name) ==
    IF get_index_of(set, name) # None
    THEN [set |-> set, index |-> get_index_of(set, name).val]
    ELSE IF set = <<>> THEN [set |-> <<name>>, index |-> 0]
    ELSE [set |-> [set EXCEPT ![Len(set)] = name], index |-> Len(set) - 1]

\* IndexSet::insert_full: the position of the item if the set holds it,
\* else the item is added after the others.
insert_full(set, name) ==
    IF get_index_of(set, name) # None
    THEN [set |-> set, index |-> get_index_of(set, name).val]
    ELSE [set |-> Append(set, name), index |-> Len(set)]

\* VarNames::replace: the table after the call, and the id returned.
VarNames_replace(names, name) ==
    [names |-> insert_full(names, name).set,
     id |-> insert_full(names, name).index]

\* VarNames::evaluate (IndexSet::get_index)
VarNames_evaluate(names, id) ==
    IF id < Len(names) THEN Some(names[id + 1]) ELSE None

\* The names of a source text.
SourceNames == {"xs", "ys", "a", "b", "visited"}

InitNames ==
    /\ scenario = [name |-> "names", lens |-> <<>>, limit |-> 0,
                   timeout |-> -1]
    /\ program = <<>>
    /\ counter = 0
    /\ scopes = <<>>
    /\ scope_cache = <<>>
    /\ pc = "run"
    /\ result = NoResult
    /\ shutdown = FALSE
    /\ spawn_limit = Nil
    /\ children = <<>>
    /\ processes = <<>>
    /\ wait = NoWait
    /\ hooks = [execute |-> 0, finish |-> 0, shutdown |-> 0]
    /\ limitMark = 0
    /\ cancelAt = Nil
    /\ signals = <<>>
    /\ var_names = <<>>
    /\ timeout_loop = Nil
    /\ lastWait = Nil
    /\ bar = Nil
    /\ run_all = Nil

\* A call of VarNames::replace
NamesReplace ==
    \E name \in SourceNames :
        /\ var_names' = VarNames_replace(var_names, name).names
        /\ UNCHANGED <<scenario, program, runVars, bedVars, shutdown,
                       cancelAt, signals, timeout_loop, bar, run_all>>

NextNames == NamesReplace

SpecNames == InitNames /\ [][NextNames]_vars

\* ------------------------------------------------------------------------
\* TimeoutLoop on its own (src/bed.rs)
\* ------------------------------------------------------------------------

\* A faulty from_sleep_times that rounds the interval down.
from_sleep_times_floor(duration, n) ==
    [duration |-> duration, sleep |-> duration \div n]

\* TimeoutLoop::from_sleep_times, for n > 0 (`assert!(n > 0)`).  The
\* arguments are u64; `sleep += 1` is reached only with n >= 2 and so does
\* not overflow.
from_sleep_times(duration, n) ==
    [duration |-> duration,
     sleep |-> IF duration % n # 0 THEN (duration \div n) + 1
               ELSE duration \div n]

\* The durations a TimeoutLoop is made for: short ones, the 1000 ms of the
\* documented example and the largest u64.
Durations == 0 .. MaxDuration \cup {1000, Word - 1}

\* The arguments of a call of from_sleep_times that is still to be made.
InitTimeout ==
    /\ scenario = [name |-> "timeout", lens |-> <<>>, limit |-> 0,
                   timeout |-> -1]
    /\ program = <<>>
    /\ counter = 0
    /\ scopes = <<>>
    /\ scope_cache = <<>>
    /\ pc = "run"
    /\ result = NoResult
    /\ shutdown = FALSE
    /\ spawn_limit = Nil
    /\ children = <<>>
    /\ processes = <<>>
    /\ wait = NoWait
    /\ hooks = [execute |-> 0, finish |-> 0, shutdown |-> 0]
    /\ limitMark = 0
    /\ cancelAt = Nil
    /\ signals = <<>>
    /\ var_names = <<>>
    /\ timeout_loop \in [duration : Durations, n : 1 .. MaxPolls,
                          made : {Nil}, running : {Nil}]
    /\ lastWait = Nil
    /\ bar = Nil
    /\ run_all = Nil

\* The call of TimeoutLoop::from_sleep_times
FromSleepTimes ==
    /\ timeout_loop.made = Nil
    /\ timeout_loop' =
          [timeout_loop EXCEPT
              !.made = from_sleep_times(timeout_loop.duration, timeout_loop.n)]
    /\ UNCHANGED <<scenario, program, runVars, bedVars, shutdown, cancelAt,
                   signals, var_names, bar, run_all>>

\* Running::wait_or_terminate up to the call of wait_loop: the child is
\* taken out of `self.process`, and without a timeout the loop is
\* TimeoutLoop { duration: u64::MAX, sleep: 1000 }.  wait_loop starts with
\* `assert!(self.sleep > 0)` and `current = 0`.
Running_wait_or_terminate(timeout) ==
    [timeout |-> IF timeout = Nil
                 THEN [duration |-> Word - 1, sleep |-> 1000]
                 ELSE timeout,
     given |-> timeout # Nil,
     process |-> Nil,
     at |-> IF timeout # Nil /\ timeout.sleep = 0 THEN "panic" ELSE "head",
     current |-> 0,
     polls |-> 0,
     sleeps |-> 0,
     slept |-> 0,
     broke |-> "none",
     kills |-> 0,
     message |-> ""]

\* What one call of the closure given to wait_loop finds: the flag set,
\* the child exited with or without success, try_wait failing, or the
\* child still running.
PollOutcomes == {"shutdown", "success", "failure", "error", "running"}

\* `current += self.sleep` on a u64: below Word the sum; at Word or above
\* a build with overflow checks panics and one without wraps.
AddU64(a, b) ==
    IF a + b < Word THEN {[panic |-> FALSE, value |-> a + b]}
    ELSE {[panic |-> TRUE, value |-> a],
          [panic |-> FALSE, value |-> (a + b) % Word]}

\* One pass of the body of wait_loop's `while current < self.duration`:
\* `if f() { break; }`, then `current += self.sleep` and the sleep.
wait_loop_pass(r, outcome, sum) ==
    IF outcome # "running"
    THEN [r EXCEPT !.polls = @ + 1, !.broke = outcome, !.at = "after"]
    ELSE IF sum.panic
    THEN [r EXCEPT !.polls = @ + 1, !.at = "panic"]
    ELSE [r EXCEPT !.polls = @ + 1,
                   !.current = sum.value,
                   !.sleeps = @ + 1,
                   !.slept = @ + r.timeout.sleep]

\* The call `proc.wait_or_terminate(timeout, &self.shutdown_signal)`, with
\* the loop made by from_sleep_times or with no timeout.
WaitOrTerminate ==
    /\ timeout_loop.made # Nil
    /\ timeout_loop.running = Nil
    /\ \E timeout \in {Nil, timeout_loop.made} :
          timeout_loop' =
             [timeout_loop EXCEPT
                 !.running = Running_wait_or_terminate(timeout)]
    /\ UNCHANGED <<scenario, program, runVars, bedVars, shutdown, cancelAt,
                   signals, var_names, bar, run_all>>

\* A pass of wait_loop.  The passes of a loop that never ends are followed
\* up to MaxPolls + 1 polls.
WaitLoopPass ==
    /\ timeout_loop.running # Nil
    /\ timeout_loop.running.at = "head"
    /\ timeout_loop.running.current < timeout_loop.running.timeout.duration
    /\ timeout_loop.running.polls <= MaxPolls
    /\ \E outcome \in PollOutcomes :
       \E sum \in AddU64(timeout_loop.running.current,
                          timeout_loop.running.timeout.sleep) :
          timeout_loop' =
             [timeout_loop EXCEPT
                 !.running = wait_loop_pass(timeout_loop.running, outcome,
                                            sum)]
    /\ UNCHANGED <<scenario, program, runVars, bedVars, shutdown, cancelAt,
                   signals, var_names, bar, run_all>>

\* wait_loop's `while current < self.duration` found false.
WaitLoopEnd ==
    /\ timeout_loop.running # Nil
    /\ timeout_loop.running.at = "head"
    /\ timeout_loop.running.current >= timeout_loop.running.timeout.duration
    /\ timeout_loop' = [timeout_loop EXCEPT !.running.at = "after"]
    /\ UNCHANGED <<scenario, program, runVars, bedVars, shutdown, cancelAt,
                   signals, var_names, bar, run_all>>

\* Running::kill: `if let Some(mut process) = self.process.take()` kills
\* the child and finishes the display; with no child in `self.process`
\* nothing is done.
Running_kill(r) ==
    IF r.process = Nil THEN r
    ELSE [r EXCEPT !.process = Nil, !.kills = @ + 1, !.message = "Killed"]

\* Running::wait_or_terminate after wait_loop: an error of try_wait kills
\* the local `process` and finishes the display with the error; an exit
\* status finishes it as Success or Failed; without one `self.kill()` is
\* called.
Running_wait_or_terminate_finish(r) ==
    IF r.broke = "error"
    THEN Running_kill([r EXCEPT !.kills = @ + 1,
                                !.message = "Error while waiting",
                                !.at = "done"])
    ELSE IF r.broke = "success"
    THEN [r EXCEPT !.message = "Success", !.at = "done"]
    ELSE IF r.broke = "failure"
    THEN [r EXCEPT !.message = "Failed", !.at = "done"]
    ELSE Running_kill([r EXCEPT !.at = "done"])

\* The rest of Running::wait_or_terminate once wait_loop has returned.
WaitOrTerminateFinish ==
    /\ timeout_loop.running # Nil
    /\ timeout_loop.running.at = "after"
    /\ timeout_loop' =
          [timeout_loop EXCEPT
              !.running = Running_wait_or_terminate_finish(
                              timeout_loop.running)]
    /\ UNCHANGED <<scenario, program, runVars, bedVars, shutdown, cancelAt,
                   signals, var_names, bar, run_all>>

NextTimeout ==
    \/ FromSleepTimes
    \/ WaitOrTerminate
    \/ WaitLoopPass
    \/ WaitLoopEnd
    \/ WaitOrTerminateFinish

SpecTimeout == InitTimeout /\ [][NextTimeout]_vars

\* ------------------------------------------------------------------------
\* A ProcessBar and the threads that use it (src/bed/process.rs)
\* ------------------------------------------------------------------------

\* The two reader threads of a child: spawn_progress_writer for its stdout
\* and for its stderr.
Readers == {1, 2}

\* `format!("{:?}", state)`, the message set_state finishes the bar with.
StateText(status) == status.kind

\* The line of output reader r has read.
Output(r) == IF r = 1 THEN "out" ELSE "err"

\* A ProcessBar right after ProcessInfo::run: status Running, no message;
\* both readers at the top of their loop, the interpreter not in set_state.
InitBar ==
    /\ scenario = [name |-> "bar", lens |-> <<>>, limit |-> 0,
                   timeout |-> -1]
    /\ program = <<>>
    /\ counter = 0
    /\ scopes = <<>>
    /\ scope_cache = <<>>
    /\ pc = "run"
    /\ result = NoResult
    /\ shutdown = FALSE
    /\ spawn_limit = Nil
    /\ children = <<>>
    /\ processes = <<>>
    /\ wait = NoWait
    /\ hooks = [execute |-> 0, finish |-> 0, shutdown |-> 0]
    /\ limitMark = 0
    /\ cancelAt = Nil
    /\ signals = <<>>
    /\ var_names = <<>>
    /\ timeout_loop = Nil
    /\ lastWait = Nil
    /\ bar = [status |-> ProcessState_Running,
              message |-> "",
              finished |-> FALSE,
              reader |-> [r \in Readers |-> "read"],
              setting |-> Nil]
    /\ run_all = Nil

\* ProcessBar::set_message, first block: under the status lock, return
\* unless the status is Running; the lock is released at the end of the
\* block.
set_message_check(b, r) ==
    IF b.status.kind = "Running"
    THEN [b EXCEPT !.reader[r] = "write"]
    ELSE [b EXCEPT !.reader[r] = "read"]

\* ProcessBar::set_message, the rest: `self.bar.set_message(msg)`.
set_message_write(b, r) ==
    [b EXCEPT !.message = Output(r), !.reader[r] = "read"]

\* spawn_progress_writer: fill_buf returns output, which goes to
\* set_message, or the end of the pipe, which ends the thread.
ReaderRead ==
    \E r \in Readers, eof \in BOOLEAN :
        /\ bar.reader[r] = "read"
        /\ bar' = [bar EXCEPT !.reader[r] = IF eof THEN "done" ELSE "check"]
        /\ UNCHANGED <<scenario, program, runVars, bedVars, shutdown,
                       cancelAt, signals, var_names, timeout_loop, run_all>>

\* A reader in set_message looks at the status.
ReaderCheck ==
    \E r \in Readers :
        /\ bar.reader[r] = "check"
        /\ bar' = set_message_check(bar, r)
        /\ UNCHANGED <<scenario, program, runVars, bedVars, shutdown,
                       cancelAt, signals, var_names, timeout_loop, run_all>>

\* A reader in set_message writes the message of the bar.
ReaderWrite ==
    \E r \in Readers :
        /\ bar.reader[r] = "write"
        /\ bar' = set_message_write(bar, r)
        /\ UNCHANGED <<scenario, program, runVars, bedVars, shutdown,
                       cancelAt, signals, var_names, timeout_loop, run_all>>

\* ProcessBar::set_state on the interpreter thread, up to
\* `*self.status.lock().unwrap() = state`; a state of Running returns at
\* once.
SetStateStore ==
    \E state \in {ProcessState_Running, ProcessState_Killed,
                   ProcessState_Error, ProcessState_Failed(1),
                   ProcessState_Finished} :
        /\ bar.setting = Nil
        /\ bar' = IF state.kind = "Running" THEN bar
                  ELSE [bar EXCEPT !.status = state, !.setting = state]
        /\ UNCHANGED <<scenario, program, runVars, bedVars, shutdown,
                       cancelAt, signals, var_names, timeout_loop, run_all>>

\* ProcessBar::set_state, the rest: `self.bar.finish_with_message(message)`.
SetStateFinish ==
    /\ bar.setting # Nil
    /\ bar' = [bar EXCEPT !.message = StateText(bar.setting),
                          !.finished = TRUE,
                          !.setting = Nil]
    /\ UNCHANGED <<scenario, program, runVars, bedVars, shutdown, cancelAt,
                   signals, var_names, timeout_loop, run_all>>

NextBar ==
    \/ ReaderRead
    \/ ReaderCheck
    \/ ReaderWrite
    \/ SetStateStore
    \/ SetStateFinish

SpecBar == InitBar /\ [][NextBar]_vars

\* ------------------------------------------------------------------------
\* The index combinations of TestBed::run_all (src/commands.rs)
\* ------------------------------------------------------------------------

RECURSIVE increment_loop(_, _, _)
\* The loop `for i in 0..len` of increment_indices from the 1-based
\* position i on: `*current += 1`, `break` when below the bound, else, but
\* for the last index, `*current = 0` and `current_indices[i + 1] += 1`.
increment_loop(current, max, i) ==
    LET c == [current EXCEPT ![i] = @ + 1] IN
    IF c[i] < max[i] THEN c
    ELSE IF i < Len(c)
         THEN increment_loop([c EXCEPT ![i] = 0, ![i + 1] = @ + 1], max,
                             i + 1)
    ELSE c

\* TestBed::increment_indices: the indices afterwards and what it returns,
\* `last < last_max`; false at once when there are no indices.
increment_indices(current, max) ==
    IF Len(current) = 0 THEN [current |-> current, ret |-> FALSE]
    ELSE LET c == increment_loop(current, max, 1) IN
         [current |-> c, ret |-> c[Len(c)] < max[Len(c)]]

\* TestBed::new(max_indices, params): every current index is 0.
TestBed_new(max_indices) ==
    [max_indices |-> max_indices,
     current_indices |-> [i \in 1 .. Len(max_indices) |-> 0],
     ran |-> <<>>,
     at |-> "start"]

\* The bounds a TestBed is made with: up to MaxIndices of them, each from 1
\* to MaxIndexBound.
IndexBounds == UNION {[1 .. k -> 1 .. MaxIndexBound] : k \in 0 .. MaxIndices}

\* A TestBed of src/commands.rs on which run_all is about to be called.
InitRunAll ==
    /\ scenario = [name |-> "run_all", lens |-> <<>>, limit |-> 0,
                   timeout |-> -1]
    /\ program = <<>>
    /\ counter = 0
    /\ scopes = <<>>
    /\ scope_cache = <<>>
    /\ pc = "run"
    /\ result = NoResult
    /\ shutdown = FALSE
    /\ spawn_limit = Nil
    /\ children = <<>>
    /\ processes = <<>>
    /\ wait = NoWait
    /\ hooks = [execute |-> 0, finish |-> 0, shutdown |-> 0]
    /\ limitMark = 0
    /\ cancelAt = Nil
    /\ signals = <<>>
    /\ var_names = <<>>
    /\ timeout_loop = Nil
    /\ lastWait = Nil
    /\ bar = Nil
    /\ run_all \in {TestBed_new(m) : m \in IndexBounds}

\* run_all's first `self.run_commands(commands)?`: the commands are run
\* with the current indices, or a command fails and run_all returns.
RunAllFirst ==
    /\ run_all.at = "start"
    /\ \E failed \in BOOLEAN :
          run_all' = IF failed THEN [run_all EXCEPT !.at = "err"]
                     ELSE [run_all EXCEPT
                              !.ran = Append(@, run_all.current_indices),
                              !.at = "loop"]
    /\ UNCHANGED <<scenario, program, runVars, bedVars, shutdown, cancelAt,
                   signals, var_names, timeout_loop, bar>>

\* A pass of `while self.increment_indices()` with its run_commands and
\* shutdown, or the end of the loop.
RunAllNext ==
    /\ run_all.at = "loop"
    /\ \E failed \in BOOLEAN :
          LET inc == increment_indices(run_all.current_indices,
                                       run_all.max_indices) IN
          run_all' =
             IF ~inc.ret
             THEN [run_all EXCEPT !.current_indices = inc.current,
                                  !.at = "done"]
             ELSE IF failed
             THEN [run_all EXCEPT !.current_indices = inc.current,
                                  !.at = "err"]
             ELSE [run_all EXCEPT !.current_indices = inc.current,
                                  !.ran = Append(@, inc.current)]
    /\ UNCHANGED <<scenario, program, runVars, bedVars, shutdown, cancelAt,
                   signals, var_names, timeout_loop, bar>>

NextRunAll == RunAllFirst \/ RunAllNext

SpecRunAll == InitRunAll /\ [][NextRunAll]_vars

\* ------------------------------------------------------------------------
\* Properties
\* ------------------------------------------------------------------------

\* The run is at the top of its loop with an instruction left to execute.
AtInstruction == pc = "run" /\ counter < Len(program)

\* C1: the run tests the flag before every instruction.  From a state where
\* the run is about to take an instruction and the flag is set, the only
\* step the run takes is the call of the shutdown hook and the return of
\* Ok: the variable state and the counter stay as they are, no command is
\* handed to the executor (no child is started, no limit set, no wait
\* begun) and finish is not called; and once the run has returned nothing
\* happens any more.  A child may still exit meanwhile.
C1_CancelledBeforeInstruction ==
    [][/\ (AtInstruction /\ shutdown) =>
             /\ UNCHANGED <<counter, scopes, scope_cache, spawn_limit, wait>>
             /\ Len(children') = Len(children)
             /\ hooks'.finish = hooks.finish
             /\ hooks'.execute = hooks.execute
             /\ \/ UNCHANGED <<pc, result, hooks, processes>>
                \/ /\ pc' = "returned"
                   /\ result'.tag = "Ok"
                   /\ hooks'.shutdown = hooks.shutdown + 1
       /\ (pc = "returned") => UNCHANGED vars
      ]_vars

\* C1, witness: the flag was set while the run was between two
\* instructions, and the run has returned through the shutdown hook.
C1_Witness ==
    /\ pc = "returned"
    /\ result.tag = "Ok"
    /\ hooks.finish = 0
    /\ hooks.shutdown = 1
    /\ cancelAt # Nil
    /\ cancelAt.pc = "run"
    /\ counter > 0
    /\ counter < Len(program)

\* The instructions that evaluate an expression or resolve a path.
Evaluating ==
    {"PushList", "CreateVar", "AssignVar", "StartIter", "Increment",
     "ConditionalJump", "Command"}

C3_NeverCrashes == result.tag \notin {"Panic", "Hang"}


\* The run has returned Ok without ever seeing the flag set.
Completed == pc = "returned" /\ result.tag = "Ok" /\ ~shutdown

Min(S) == CHOOSE m \in S : \A x \in S : m <= x

\* Number of passes a lock-step loop over lists of lengths `lens` makes.
GroupPasses(lens) == Min({lens[i] : i \in 1 .. Len(lens)})

\* The arguments of the body's spawn on pass j (0-based): element j of
\* every target.
GroupArgs(lens, j) == [i \in 1 .. Len(lens) |-> ElemName(i, j + 1)]

\* C4: a group loop over lists of lengths n1..nk hands its body's Spawn to
\* the executor exactly min(n1..nk) times, and on pass j (0-based) the
\* child that is started has element j of every target as arguments, in
\* the order of the iterators.
C4_GroupLoopLockStep ==
    [][scenario.name = "group" =>
          /\ result'.tag \in {"Running", "Ok"}
          /\ hooks'.execute <= GroupPasses(scenario.lens)
          /\ Len(children') > Len(children) =>
                /\ hooks'.execute = hooks.execute + 1
                /\ children'[Len(children')].command = "echo"
                /\ children'[Len(children')].args =
                       GroupArgs(scenario.lens, hooks.execute)
          /\ (pc' = "returned" /\ ~shutdown') =>
                hooks'.execute = GroupPasses(scenario.lens)
      ]_vars

\* C4, witness: `for a in ["a", "b"] { spawn "echo" a }` has completed with
\* two children, "a" then "b".
C4_Witness ==
    /\ scenario.name = "group"
    /\ scenario.lens = <<2>>
    /\ Completed
    /\ Len(children) = 2
    /\ children[1].args = <<"a">>
    /\ children[2].args = <<"b">>

\* C4, witness of the shortest target deciding: two lists of different
\* lengths, both not empty, and the loop has completed.
C4_WitnessShortest ==
    /\ scenario.name = "group"
    /\ scenario.lens = <<2, 1>>
    /\ Completed
    /\ Len(children) = 1
    /\ children[1].args = <<"a", "x">>

RECURSIVE Prod(_, _)
\* lens[i] * .. * lens[k]
Prod(lens, i) == IF i > Len(lens) THEN 1 ELSE lens[i] * Prod(lens, i + 1)

\* The position of iterator i in the p-th tuple (0-based) of the
\* lexicographic order in which the last iterator varies fastest.
Digit(lens, p, i) == (p \div Prod(lens, i + 1)) % lens[i]

RECURSIVE TupleName(_, _, _)
\* The elements of the p-th tuple, concatenated from iterator i on.
TupleName(lens, p, i) ==
    IF i > Len(lens) THEN ""
    ELSE ElemName(i, Digit(lens, p, i) + 1) \o TupleName(lens, p, i + 1)

\* What a cartesian loop's body must have recorded when the loop is over.
Cartesian(lens) ==
    [p \in 1 .. Prod(lens, 1) |-> Object_new(TupleName(lens, p - 1, 1))]

\* The list the body of a loop records its passes in.
Visited ==
    LET found == get_value(scopes, "visited") IN
    IF found.tag = "None" THEN <<>> ELSE found.val.object.items

\* C5: a combinations loop over lists of lengths n1..nk runs its body once
\* for every tuple of positions and never twice for one, n1*..*nk times in
\* all, in lexicographic order with the last iterator varying fastest: at
\* every moment the passes made so far are the first tuples of that order,
\* and when the run has completed they are all of them.
C5_CombinationsLoopCartesian ==
    scenario.name = "comb" =>
        /\ result.tag \in {"Running", "Ok"}
        /\ Len(Visited) <= Prod(scenario.lens, 1)
        /\ Visited = SubSeq(Cartesian(scenario.lens), 1, Len(Visited))
        /\ Completed => Len(Visited) = Prod(scenario.lens, 1)

\* C5, witness: a loop over three lists has completed after more passes
\* than a lock-step loop could make, the last of them over the last
\* elements.
C5_Witness ==
    /\ scenario.name = "comb"
    /\ scenario.lens = <<2, 1, 2>>
    /\ Completed
    /\ Len(Visited) = 4
    /\ Visited[2].base = "axq"
    /\ Visited[3].base = "bxp"


\* The 0-based indices of the Increment instructions of the program.
Increments == {q \in 0 .. Len(program) - 1 : program[q + 1].op = "Increment"}

\* The body of the loop the Increment at q belongs to: from the target of
\* the loop's Goto (the instruction before the loop's end) up to the first
\* Increment of the loop.
LoopBody(q) ==
    LET end_idx == program[q + 1].jump
        goto == program[end_idx].jump
        first == Min({r \in Increments : program[r + 1].jump = end_idx})
    IN  goto .. first - 1

\* The iteration variable of the Increment at q stands at an offset below
\* the current length of its target.
OffsetInRange(q) ==
    LET iter_var == get_value(scopes, program[q + 1].iter) IN
    IF iter_var.tag = "None" THEN TRUE
    ELSE LET object == iter_var.val.object IN
         IF object.kind = "Counter" THEN object.offset < Counter_len(object)
         ELSE IF object.kind # "Ref" THEN TRUE
         ELSE LET found == get_value(scopes, object.target) IN
              IF found.tag = "None" THEN FALSE
              ELSE LET len == TargetLen(found.val.object) IN
                   IF len.tag = "None" THEN FALSE
                   ELSE object.offset < len.val

\* The run executes the instruction at `counter` in this step.
ExecutesInstruction ==
    /\ AtInstruction
    /\ ~shutdown
    /\ counter' # counter \/ pc' # pc

\* C6: an Increment that raises the offset of its iteration variable to
\* the length of the target or beyond jumps to its jump target, and no
\* instruction of a loop body is executed while an iteration variable of
\* the loop has an offset at or beyond the current length of its target.
C6_OffsetBelowLengthInBody ==
    [][/\ \A q \in Increments :
             (ExecutesInstruction /\ counter = q /\ result'.tag = "Running"
              /\ ~OffsetInRange(q)') =>
                 counter' = program[q + 1].jump
       /\ ExecutesInstruction =>
             \A q \in Increments : counter \in LoopBody(q) => OffsetInRange(q)
      ]_vars

\* The children started after the last LimitSpawn whose display status is
\* still Running: no terminal state has been observed for them.
Unterminated ==
    {c \in limitMark + 1 .. Len(children) : children[c].state.kind = "Running"}

\* C7: once LimitSpawn(L), L >= 1, has executed, at most L of the children
\* started since are not yet observed in a terminal state; with L = 1 a
\* child is started only when every earlier one has been observed terminal.
C7_SpawnLimit ==
    (spawn_limit # Nil /\ spawn_limit.n >= 1) =>
        /\ Cardinality(Unterminated) <= spawn_limit.n
        /\ Unterminated \subseteq Tracked(processes)
        /\ spawn_limit.n = 1 =>
              \A c, d \in limitMark + 1 .. Len(children) :
                  c < d => children[c].state.kind # "Running"

\* C7, witness: under LimitSpawn(1) the third child has been started, and
\* the admission wait before it has ended because a child was seen to end.
C7_Witness ==
    /\ spawn_limit # Nil
    /\ spawn_limit.n = 1
    /\ ~shutdown
    /\ Len(children) = 3
    /\ children[3].state.kind = "Running"
    /\ children[2].state.kind \in {"Finished", "Failed"}
    /\ lastWait # Nil
    /\ lastWait.caller = "Spawn"
    /\ lastWait.outcome = "drained"

\* C8: when the budget of WaitAll(t) has elapsed, every tracked child that
\* has not exited is killed by the supervisor: when wait_all returns for
\* that reason the child's state is Killed.
C8_TimeoutKills ==
    [][(/\ pc = "wait_head"
        /\ wait.caller = "WaitAll"
        /\ wait.duration # Nil
        /\ ~WaitCondition
        /\ pc' = "run") =>
           \A c \in Tracked(processes) :
               children[c].os = "alive" => children'[c].state.kind = "Killed"
      ]_vars

\* The flag was set while the worker was in the wait of WaitAll or of
\* finish, and the run has returned.
CancelledInWait ==
    /\ pc = "returned"
    /\ cancelAt # Nil
    /\ cancelAt.pc \in {"wait_head", "wait_sleep"}
    /\ cancelAt.caller \in {"WaitAll", "finish"}

\* C9 as stated: after a cancellation during the wait of WaitAll or of
\* finish every child that was still tracked has state Killed, no child is
\* tracked any more and the run has returned Ok.
C9_CancelKillsAll ==
    CancelledInWait =>
        /\ result.tag = "Ok"
        /\ processes = <<>>
        /\ \A c \in cancelAt.tracked : children[c].state.kind = "Killed"

\* C9, amended: after a cancellation during the wait of WaitAll or of
\* finish every child that was still tracked has been sent a kill and has
\* state Killed, or Error if the OS refused the kill; no child is tracked
\* any more and the run has returned Ok.
C9_CancelKillsOrReportsError ==
    CancelledInWait =>
        /\ result.tag = "Ok"
        /\ processes = <<>>
        /\ \A c \in cancelAt.tracked :
              \/ children[c].state.kind = "Killed"
              \/ children[c].state.kind = "Error" /\ children[c].os # "killed"

\* C9, witness: the flag was set while two children were waited for, and
\* the run has returned with both of them killed.
C9_Witness ==
    /\ CancelledInWait
    /\ Cardinality(cancelAt.tracked) = 2
    /\ \A c \in cancelAt.tracked :
          children[c].state.kind = "Killed" /\ children[c].os = "killed"


\* C10: a process starts in state Running, and once its state is Killed,
\* Error, Failed or Finished no call of try_wait, kill or set_state changes
\* it.
C10_StateChangesOnce ==
    [][\A c \in 1 .. Len(children) :
          children[c].state.kind # "Running" =>
              children'[c].state = children[c].state
      ]_vars

\* C11: try_wait is one poll that does not wait.  On a tracked process it
\* returns false exactly when the handle is there, the poll succeeds and the
\* child has not exited, and then the state is left Running; it returns true
\* with Finished for an exit with success, with Failed(code) for any other
\* exit, with Error when the poll fails; without a handle it returns true
\* and changes nothing.  No other child is touched.  So no child is ever
\* shown Finished or Failed before it has exited.
C11_TryWaitPolls ==
    /\ \A k \in 1 .. Len(processes), failed \in BOOLEAN :
          LET info == processes[k]
              c == info.child
              os == children[c].os
              r == ProcessInfo_try_wait(info, children, failed)
              gone == ProcessInfo_try_wait([info EXCEPT !.running = FALSE],
                                           children, failed)
          IN  /\ r.ret = FALSE <=> (info.running /\ ~failed /\ os = "alive")
              /\ r.ret = FALSE =>
                    /\ r.children = children
                    /\ r.children[c].state = ProcessState_Running
              /\ (info.running /\ failed) =>
                    r.children[c].state = ProcessState_Error
              /\ (info.running /\ ~failed /\ os = "exit0") =>
                    r.children[c].state = ProcessState_Finished
              /\ (info.running /\ ~failed /\ os \notin {"alive", "exit0"}) =>
                    r.children[c].state = ProcessState_Failed(ExitCode(os))
              /\ \A d \in 1 .. Len(children) :
                    d # c => r.children[d] = children[d]
              /\ gone.ret
              /\ gone.children = children
    /\ \A c \in 1 .. Len(children) :
          /\ children[c].state.kind = "Finished" => children[c].os = "exit0"
          /\ children[c].state.kind = "Failed" =>
                children[c].os = "exit1" /\ children[c].state.code = 1

\* C11, witness: a poll pass of the supervisor has just seen one child
\* exited with success, one exited with a failure, and has left a third,
\* still alive, tracked and Running.
C11_Witness ==
    /\ pc = "wait_sleep"
    /\ \E c \in 1 .. Len(children) : children[c].state.kind = "Finished"
    /\ \E c \in 1 .. Len(children) : children[c].state.kind = "Failed"
    /\ \E c \in Tracked(processes) :
          children[c].os = "alive" /\ children[c].state.kind = "Running"

\* C12: in one run the interpreter calls finish once, and shutdown not at
\* all, exactly when the counter has reached the end of the program; it
\* calls shutdown once, and finish not at all, exactly when it has returned
\* because the flag was set before an instruction; it calls neither when
\* the run ends with an error.  It never calls both.
C12_OneHookPerRun ==
    /\ hooks.finish + hooks.shutdown <= 1
    /\ hooks.finish = 1 <=> (counter >= Len(program) /\ pc # "run")
    /\ hooks.shutdown = 1 <=>
          (pc = "returned" /\ result.tag = "Ok" /\ counter < Len(program))
    /\ (pc = "returned" /\ result.tag = "Ok") =>
          hooks.finish + hooks.shutdown = 1
    /\ (pc = "returned" /\ result.tag # "Ok") =>
          hooks.finish = 0 /\ hooks.shutdown = 0

\* C12, witness: a run that handed commands to the executor has reached the
\* end of its program and returned through finish.
C12_Witness ==
    /\ pc = "returned"
    /\ result.tag = "Ok"
    /\ counter = Len(program)
    /\ hooks.execute > 0
    /\ hooks.finish = 1
    /\ hooks.shutdown = 0

\* C13: the flag starts false, and once a call of Shutdown::shutdown has set
\* it nothing clears it: is_shutdown is true in every later state.  Of all
\* the calls made, in whatever order they take effect, exactly one returns
\* false, the one that found the flag clear, and every other returns true.
C13_FlagSetOnce ==
    /\ [](/\ is_shutdown <=> signals # <<>>
          /\ \A i \in 1 .. Len(signals) : signals[i] = FALSE <=> i = 1)
    /\ [][is_shutdown => is_shutdown']_vars

\* C13, witness: the handler has run twice during a run, and the run has
\* gone on to observe the flag.
C13_Witness ==
    /\ signals = <<FALSE, TRUE>>
    /\ is_shutdown
    /\ pc = "returned"

\* The worker is at the head of a wait loop (of wait_all, whoever called it,
\* or of Sleep), or in the sleep of one of its ticks.
AtTickHead == pc \in {"wait_head", "sleep_head"}

InTickSleep == pc \in {"wait_sleep", "sleep_sleep"}

\* C14: every tick of Sleep, WaitAll, the finish wait and the admission
\* wait starts with a test of the flag.  Once the flag is set, a wait that
\* is at the head of a tick neither polls nor sleeps again: its next step
\* is to return; and a wait that is inside the sleep of a tick completes
\* that one sleep and comes to the head of the next tick.  So at most one
\* sleep tick follows the setting of the flag.
C14_CancelEndsWaitInOneTick ==
    [][/\ (is_shutdown /\ AtTickHead) =>
             \/ UNCHANGED <<pc, wait, processes>>
             \/ pc' \in {"run", "returned"} /\ wait' = NoWait
       /\ (is_shutdown /\ InTickSleep) =>
             \/ UNCHANGED <<pc, wait, processes>>
             \/ /\ AtTickHead'
                /\ wait'.elapsed <= wait.elapsed + SLEEP_TIME
                /\ processes' = processes
      ]_vars

\* C14, witness: the flag was set during the sleep of a tick of WaitAll
\* with a timeout, and the wait ended at the head of the next tick, before
\* its budget was used up, by the cancellation.
C14_Witness ==
    /\ cancelAt # Nil
    /\ cancelAt.pc = "wait_sleep"
    /\ cancelAt.caller = "WaitAll"
    /\ scenario.timeout > SLEEP_TIME
    /\ lastWait # Nil
    /\ lastWait.caller = "WaitAll"
    /\ lastWait.outcome = "cancel"

\* A name that only the innermost scope binds.
BoundOnlyInnermost(n) ==
    /\ scopes # <<>>
    /\ n \in DOMAIN scopes[Len(scopes)]
    /\ \A i \in 1 .. Len(scopes) - 1 : n \notin DOMAIN scopes[i]

\* C15: whatever calls of new_scope, pop_scope, insert_var and set_var have
\* been made, every scope in the recycle pool is empty; so the scope that
\* new_scope pushes next has no bindings, and a name that only the
\* innermost scope binds is not found once that scope has been popped,
\* nor after the next new_scope.
C15_RecycledScopesAreEmpty ==
    /\ \A i \in 1 .. Len(scope_cache) : DOMAIN scope_cache[i] = {}
    /\ LET st == new_scope(State) IN
          DOMAIN st.scopes[Len(st.scopes)] = {}
    /\ \A n \in ScopeNames :
          BoundOnlyInnermost(n) =>
              /\ get_value(pop_scope(State).scopes, n) = None
              /\ get_value(new_scope(pop_scope(State)).scopes, n) = None

\* C15, witness: a scope has been popped into the pool, and a name is
\* bound only in the innermost of the scopes in use.
C15_Witness ==
    /\ Len(scope_cache) >= 1
    /\ Len(scopes) >= 1
    /\ BoundOnlyInnermost("a")

\* The names bound in some scope.
BoundNames == UNION {DOMAIN scopes[i] : i \in 1 .. Len(scopes)}

\* The rest of a path after its variable: an optional list index and an
\* optional field.
PathTails ==
    {VarFieldId("", idx, field) :
        idx \in {Nil, VariableIdx_Integer(0)},
        field \in {Nil, VarFieldId_new("p")}}

\* The object a path resolves to, Refs followed to the end: the path from
\* the variable n, and the same path taken from a given object.
ThroughVariable(n, tail) ==
    AndThen(get_object(scopes, VarFieldId(n, tail.idx, tail.field)),
            LAMBDA object : Deref(scopes, object))

OnTarget(target, tail) ==
    AndThen(IdxThenField(scopes, tail, target),
            LAMBDA object : Deref(scopes, object))

\* C16: when a variable reaches its target through one or more Refs, every
\* path that is valid on the target (list index, field, both or neither)
\* resolves through the variable to the same object as on the target.
C16_RefChasingTransparent ==
    \A n \in BoundNames :
        get_value(scopes, n).val.object.kind = "Ref" =>
            \A target \in {evaluate_ref(scopes, get_value(scopes, n).val.object)} :
                target.tag = "Some" =>
                    \A tail \in PathTails :
                        OnTarget(target.val, tail).tag = "Ok" =>
                            ThroughVariable(n, tail) = OnTarget(target.val, tail)

\* The 0-based indices of the instructions of the if blocks of the program:
\* from the PushScope after the block's ConditionalJumps to its closing
\* PopScope.
IfBlock ==
    {q \in 0 .. Len(program) - 1 :
        /\ program[q + 1].op # "ConditionalJump"
        /\ \E c \in 0 .. q - 1 :
              /\ program[c + 1].op = "ConditionalJump"
              /\ q < program[c + 1].jump}

\* Every condition of the scenario's if statement has the base "false".
AllFalse == \A i \in 1 .. Len(scenario.lens) : CondBase(scenario.lens[i]) = "false"

\* C18: an if block with conditions c1..ck, each a Struct (reached
\* directly or through a loop variable), is executed if and only if
\* every ci has the base "false".  A ConditionalJump whose condition has
\* another base transfers control to the instruction right after the
\* block's closing PopScope, so that no instruction of the block, its
\* PushScope included, is executed; one whose condition is "false" goes on
\* to the next condition or to the block.  The command after the block is
\* executed in either case.
C18_IfBlockRunsOnFalse ==
    /\ [][scenario.name = "if" =>
            /\ (ExecutesInstruction /\ counter \in IfBlock) => AllFalse
            /\ (ExecutesInstruction /\ Instr.op = "ConditionalJump") =>
                  /\ result'.tag = "Running"
                  /\ UNCHANGED <<scopes, scope_cache, children, hooks>>
                  /\ \A target \in {ThroughVariable(Instr.cond.var,
                                                     VarFieldId_new(""))} :
                        IF target.val.base = "false"
                        THEN counter' = counter + 1
                        ELSE /\ counter' = Instr.jump
                             /\ counter' \notin IfBlock
                             /\ counter' - 1 \in IfBlock
                             /\ program[counter'].op = "PopScope"
          ]_vars
    /\ [](scenario.name = "if" =>
            /\ result.tag \in {"Running", "Ok"}
            /\ Completed =>
                  hooks.execute = IF AllFalse THEN 2 ELSE 1)

\* C18, witness: of two conditions the first is "false" and the second is
\* not; the block was skipped at the second condition and the run has
\* completed with the command after the block executed.
C18_Witness ==
    /\ scenario.name = "if"
    /\ Len(scenario.lens) = 2
    /\ scenario.lens[1] = 0
    /\ scenario.lens[2] # 0
    /\ Completed
    /\ hooks.execute = 1
    /\ Len(children) = 1
    /\ children[1].args = <<"2">>

\* C18, witness of the block being executed: both conditions are "false"
\* and the run has completed with both commands executed.
C18_WitnessExecuted ==
    /\ scenario.name = "if"
    /\ Len(scenario.lens) = 2
    /\ AllFalse
    /\ Completed
    /\ Len(children) = 2
    /\ children[1].args = <<"1">>

\* The struct the scenario appends to its list.
Appended == Struct(KeyBase(scenario.lens[2]), "p" :> Object_new("v"))

\* C17: after a Struct with base b and properties has been appended to a
\* list, indexing the list with a variable whose value is the string b
\* yields that Struct, with its base and its properties, whatever the
\* other elements of the list and whatever the string b.
C17_IndexByBaseRoundTrip ==
    scenario.name = "index" =>
        /\ result.tag \in {"Running", "Ok"}
        /\ Completed =>
              /\ get_value(scopes, "v") # None
              /\ get_value(scopes, "v").val.object = Appended

RECURSIVE LexicalDepth(_)
\* The number of blocks that are open in the program text before the
\* instruction at the 0-based index q: PushScopes minus PopScopes up to it.
LexicalDepth(q) ==
    IF q = 0 THEN 0
    ELSE LexicalDepth(q - 1) +
         (CASE program[q].op = "PushScope" -> 1
            [] program[q].op = "PopScope" -> -1
            [] OTHER -> 0)

\* The 0-based indices of the StartIter instructions of the program.
StartIters == {q \in 0 .. Len(program) - 1 : program[q + 1].op = "StartIter"}

\* C19: in a program built by the loop and if compilers every PopScope
\* pops the scope its matching PushScope pushed, on every path that has
\* not ended in an error: whenever the run is between two instructions the
\* depth of the scope stack is the depth at the start of the run plus the
\* number of blocks open at that place of the program text, whether the
\* place was reached in sequence, by the jump of a StartIter over an empty
\* target, of an Increment or of a ConditionalJump; so the depth after a
\* loop or an if block is the depth before it.  And outside the
\* instructions of a loop, the loop's iteration variable is not bound.
C19_ScopesMatchBlocks ==
    (pc = "run" /\ result.tag = "Running") =>
        /\ Len(scopes) = 2 + LexicalDepth(counter)
        /\ counter >= Len(program) => Len(scopes) = 2
        /\ \A q \in StartIters :
              counter \notin q .. program[q + 1].jump =>
                  get_value(scopes, program[q + 1].iter) = None

\* C19, witness: a lock-step loop over two lists has been left through the
\* Increment of its second iterator, and the run is at the end of the
\* program with the loop's scopes back in the pool.
C19_Witness ==
    /\ scenario.name = "group"
    /\ scenario.lens = <<2, 1>>
    /\ pc = "run"
    /\ counter = Len(program)
    /\ Len(scopes) = 2
    /\ Len(scope_cache) = 2
    /\ hooks.execute = 1

\* C19, witness of a loop that is skipped: the second target of a
\* cartesian loop is empty, and the run is at the end of the program.
C19_WitnessSkipped ==
    /\ scenario.name = "comb"
    /\ scenario.lens = <<2, 0>>
    /\ pc = "run"
    /\ counter = Len(program)
    /\ Len(scopes) = 2

\* In this step execute goes through the launch of a Spawn command: the
\* command is a Spawn whose expressions evaluate, and the worker leaves
\* either the top of the run loop (no wait for admission) or the wait for
\* admission.
LaunchAttempt ==
    /\ counter < Len(program)
    /\ Instr.op = "Command"
    /\ Instr.command.kind = "Spawn"
    /\ Spawn_evaluate(Instr.command.spawn, scopes).tag = "Ok"
    /\ \/ /\ pc = "run"
          /\ ~is_shutdown
          /\ pc' # "wait_head"
          /\ counter' # counter \/ pc' # pc
       \/ /\ pc = "wait_head"
          /\ wait.caller = "Spawn"
          /\ pc' \notin {"wait_head", "wait_sleep"}

\* The wait for admission of this step's Spawn ends by cancellation.
AdmissionCancelled == pc = "wait_head" /\ WaitCondition /\ is_shutdown

\* C20: when the OS does not start the executable of a Spawn, so that no
\* child comes into being, execute returns Ok and the run goes on with
\* the next instruction: nothing is added to the tracked processes, which
\* stay as they are (or as the cancellation of the admission wait left
\* them, empty), and the variable state is unchanged.  Otherwise the new
\* child is the one process added to the tracked processes.
C20_LaunchFailureIsSkipped ==
    [][LaunchAttempt =>
          /\ result' = result
          /\ pc' = "run"
          /\ counter' = counter + 1
          /\ UNCHANGED <<scopes, scope_cache>>
          /\ IF Len(children') = Len(children)
             THEN /\ Len(processes') <= Len(processes)
                  /\ Tracked(processes') \subseteq Tracked(processes)
                  /\ IF AdmissionCancelled THEN processes' = <<>>
                     ELSE UNCHANGED <<processes, children>>
             ELSE /\ Len(children') = Len(children) + 1
                  /\ Tracked(processes') \ Tracked(processes) =
                        {Len(children')}
      ]_vars

\* C20, witness: of the three Spawn commands of a program one was not
\* started by the OS, and the run has executed all five commands and
\* completed with two children.
C20_Witness ==
    /\ scenario.name = "limit"
    /\ Completed
    /\ hooks.execute = 5
    /\ Len(children) = 2
    /\ children[2].args = <<"3">>

\* The supervisor tracks no children and has no spawn limit.
FreshSupervisor == processes = <<>> /\ spawn_limit = Nil

\* C21: every command program starts with a supervisor that tracks no
\* children and has no spawn limit: the first one, and, after reset has
\* run, the next one.
C21_ResetLeavesFreshSupervisor ==
    /\ FreshSupervisor
    /\ [](pc = "next" => FreshSupervisor)

\* C21, witness: a run set a spawn limit and ended with an error while a
\* child was tracked, and reset has run.
C21_Witness ==
    /\ pc = "next"
    /\ result.tag = "Err"
    /\ scenario.name = "leak"
    /\ hooks.execute = 3
    /\ hooks.finish = 0
    /\ \E c \in 1 .. Len(children) : children[c].state = ProcessState_Finished

\* The worker calls the supervisor's shutdown in this step: run's
\* cancellation test, or the cancellation of a wait_all.
ShutdownCall ==
    \/ pc = "run" /\ counter < Len(program) /\ is_shutdown /\ pc' # pc
    \/ pc \in {"wait_head", "reset_head"} /\ WaitCondition /\ is_shutdown
         /\ pc' # pc

\* C22: a call of the supervisor's shutdown issues exactly one kill for
\* each tracked child and none for any other, leaves none of them tracked,
\* and returns without a pass of a wait loop; with nothing tracked it
\* changes no child.  Over a whole run no child is sent a second kill,
\* however often shutdown is called.
C22_ShutdownKillsOnceAndDrains ==
    /\ [](\A c \in 1 .. Len(children) : children[c].kills <= 1)
    /\ [][ShutdownCall =>
             /\ Tracked(processes') \cap Tracked(processes) = {}
             /\ pc' \in {"returned", "run", "next"}
             /\ \A c \in 1 .. Len(children) :
                   IF c \in Tracked(processes)
                   THEN children'[c].kills = children[c].kills + 1
                   ELSE children'[c] = children[c]
             /\ processes = <<>> =>
                   SubSeq(children', 1, Len(children)) = children
        ]_vars

\* C22, witness: the cancellation of a wait for admission has called
\* shutdown with a child tracked, the Spawn has started another child, and
\* run's cancellation test has called shutdown again: each child has been
\* sent one kill.
C22_Witness ==
    /\ pc = "returned"
    /\ hooks.shutdown = 1
    /\ lastWait # Nil
    /\ lastWait.caller = "Spawn"
    /\ lastWait.outcome = "cancel"
    /\ lastWait.tracked # {}
    /\ Len(children) > Cardinality(lastWait.tracked)
    /\ \A c \in 1 .. Len(children) : children[c].kills = 1

\* C23: ProcessInfo::kill on a process whose handle is held issues one kill
\* request and gives up the handle; the display's state becomes Killed if
\* the OS accepts the request and Error, with the child as it was, if it
\* refuses.  No other call issues a request: a kill on a ProcessInfo
\* without handle changes nothing, so no child gets a second request.
C23_KillOnceNoRetry ==
    /\ [](\A k \in 1 .. Len(processes) :
             children[processes[k].child].kills =
                 IF processes[k].running THEN 0 ELSE 1)
    /\ [][\A k \in 1 .. Len(processes) :
             LET c == processes[k].child IN
             IF processes[k].running /\ ~processes'[k].running
             THEN /\ children'[c].kills = children[c].kills + 1
                  /\ \/ /\ children'[c].state = ProcessState_Killed
                        /\ children'[c].os =
                              IF children[c].os = "alive" THEN "killed"
                              ELSE children[c].os
                     \/ /\ children'[c].state = ProcessState_Error
                        /\ children'[c].os = children[c].os
             ELSE /\ children'[c].kills = children[c].kills
                  /\ processes'[k] = processes[k]
        ]_vars

\* C23, witness: the OS has refused one kill and accepted another, and both
\* handles are gone.
C23_Witness ==
    /\ \A k \in 1 .. Len(processes) : ~processes[k].running
    /\ \E c, d \in 1 .. Len(children) :
          /\ children[c].kills = 1 /\ children[c].os = "alive"
          /\ children[d].kills = 1 /\ children[d].os = "killed"

\* The two streams of a child.
StreamNames == {"stdout", "stderr"}

\* The stream `n` of child `c`.
StreamOf(c, n) == IF n = "stdout" THEN children[c].stdout ELSE children[c].stderr

\* C24: the output of a stream is never lost: the pipe of every stream of
\* every child is read, by the display or by a file writer, and a stream
\* whose flag says that it has been redirected is read by the display.
\* A child is started and tracked whether or not its files can be opened.
C24_FailedFileGoesToDisplay ==
    \A c \in 1 .. Len(children), n \in StreamNames :
        /\ StreamOf(c, n).sink # "none"
        /\ StreamOf(c, n).flag => StreamOf(c, n).sink = "display"

\* The run aborts in this step with the error e, the variable state as it
\* was.
AbortsWith(e) ==
    /\ pc' = "returned"
    /\ result' = [tag |-> "Err", idx |-> counter, err |-> e.err]
    /\ UNCHANGED <<counter, scopes, scope_cache>>

\* The bindings of scopes' are those of scopes, but for the one of target
\* in the scope with 0-based index i, which is bound to object.
OnlyRebound(i, target, object) ==
    /\ Len(scopes') = Len(scopes)
    /\ \A j \in 1 .. Len(scopes) :
          /\ DOMAIN scopes'[j] =
                DOMAIN scopes[j] \cup (IF j = i + 1 THEN {target} ELSE {})
          /\ \A n \in DOMAIN scopes'[j] :
                scopes'[j][n] = IF j = i + 1 /\ n = target THEN object
                                ELSE scopes[j][n]

\* C25: a PushList whose value evaluates, on a target whose innermost
\* binding is a list, makes that binding the list with the value appended
\* after its elements, changes no other binding and goes on with the next
\* instruction; on a target bound to something else the run aborts with
\* NotAList, on an unbound target with MissingVariable, in both cases with
\* the variable state as it was.
C25_PushListAppends ==
    [][(ExecutesInstruction /\ Instr.op = "PushList") =>
          \A object \in {ObjectExpr_evaluate(Instr.object, scopes)},
             found \in {get_value(scopes, Instr.target)} :
              object.tag = "Ok" =>
                  IF found.tag = "None"
                  THEN AbortsWith(Err("MissingVariable", Instr.target))
                  ELSE IF found.val.object.kind # "List"
                  THEN AbortsWith(Err("NotAList", ""))
                  ELSE /\ OnlyRebound(found.val.scope, Instr.target,
                             List(Append(found.val.object.items, object.val)))
                       /\ counter' = counter + 1
                       /\ UNCHANGED <<pc, result, scope_cache>>
      ]_vars

\* C25, witness: inside a loop over two iterators, two values have been
\* pushed to a list bound in an outer scope, one after the other.
C25_Witness ==
    /\ scenario.name = "comb"
    /\ result.tag = "Running"
    /\ Len(scopes) > 2
    /\ Len(Visited) = 2
    /\ Visited[1] # Visited[2]

\* The lookup of target in scopes' finds object.
LooksUp(target, object) ==
    /\ get_value(scopes', target) # None
    /\ get_value(scopes', target).val.object = object

\* C26: a CreateVar or AssignVar whose expression evaluates completes
\* without error, and the lookup of its target then yields the value:
\* without scope index, CreateVar binds the target in the innermost scope
\* and changes no other binding, and AssignVar overwrites the innermost
\* binding of the target; with a scope index the target is bound to the
\* value in that scope.
C26_AssignmentBindsValue ==
    [][(ExecutesInstruction /\ Instr.op \in {"CreateVar", "AssignVar"}) =>
          \A eval \in {ObjectExpr_evaluate(Instr.value, scopes)},
             found \in {get_value(scopes, Instr.target)} :
              eval.tag = "Ok" =>
                  /\ counter' = counter + 1
                  /\ UNCHANGED <<pc, result>>
                  /\ IF Instr.scope # Nil
                     THEN /\ Instr.scope.n < Len(scopes')
                          /\ Instr.target \in DOMAIN scopes'[Instr.scope.n + 1]
                          /\ scopes'[Instr.scope.n + 1][Instr.target] = eval.val
                     ELSE /\ LooksUp(Instr.target, eval.val)
                          /\ IF Instr.op = "CreateVar"
                             THEN OnlyRebound(Len(scopes) - 1, Instr.target,
                                              eval.val)
                             ELSE found # None =>
                                     OnlyRebound(found.val.scope, Instr.target,
                                                 eval.val)
      ]_vars

\* The part of C26 that holds: as C26, for every CreateVar and for an
\* AssignVar of a name that is bound.
C26_BoundAssignmentBindsValue ==
    [][(/\ ExecutesInstruction
        /\ Instr.op \in {"CreateVar", "AssignVar"}
        /\ Instr.scope = Nil
        /\ Instr.op = "AssignVar" => get_value(scopes, Instr.target) # None) =>
          \A eval \in {ObjectExpr_evaluate(Instr.value, scopes)},
             found \in {get_value(scopes, Instr.target)} :
              eval.tag = "Ok" =>
                  /\ counter' = counter + 1
                  /\ UNCHANGED <<pc, result>>
                  /\ LooksUp(Instr.target, eval.val)
                  /\ OnlyRebound(IF Instr.op = "CreateVar"
                                 THEN Len(scopes) - 1 ELSE found.val.scope,
                                 Instr.target, eval.val)
      ]_vars

\* The bounds of the range loop of the "range" programs, and the number of
\* passes a loop over them is to make.
RangeLo == RangeStart(scenario.limit)

RangeHi == 1 + scenario.lens[1]

RangePasses == IF RangeHi > RangeLo THEN RangeHi - RangeLo ELSE 0

\* C27: in `for a in start..end { push visited a }` the passes made so far
\* are passes 0, 1, .. in this order, pass j with a a Counter of value
\* start + j; there are never more than max(0, end - start) of them, and
\* exactly that many when the run has completed.  While the body is
\* about to run, a is the Counter of the pass to come.  With start >= end
\* a is never bound.
C27_RangeLoopPasses ==
    scenario.name = "range" =>
        /\ result.tag \in {"Running", "Ok"}
        /\ Len(Visited) <= RangePasses
        /\ \A j \in 1 .. Len(Visited) :
              Visited[j] = Object_new(FormatInt(RangeLo + j - 1))
        /\ Completed => Len(Visited) = RangePasses
        /\ (AtInstruction /\ Instr.op = "PushList") =>
              /\ get_value(scopes, "a") # None
              /\ get_value(scopes, "a").val.object =
                    Counter(Len(Visited), RangeLo, RangeHi)
              /\ Counter_idx(get_value(scopes, "a").val.object) =
                    RangeLo + Len(Visited)
        /\ RangePasses = 0 => get_value(scopes, "a") = None

\* C27, witness: a loop over -1 .. 2 has completed: three passes, the last
\* with the value 1.
C27_Witness ==
    /\ scenario.name = "range"
    /\ RangeLo = -1
    /\ RangeHi = 2
    /\ Completed
    /\ Len(Visited) = 3
    /\ Visited[3] = Object_new("1")

\* C27, a second witness: a loop over 3 .. 2 has completed without a pass.
C27_WitnessEmpty ==
    /\ scenario.name = "range"
    /\ RangeLo > RangeHi
    /\ Completed
    /\ Visited = <<>>

\* The scopes, by 1-based position, that bind the name n.
Binding(n) == {i \in 1 .. Len(scopes) : n \in DOMAIN scopes[i]}

\* C28: get_value of a name that no scope binds is None; of a name that
\* some scope binds it is the binding in the innermost of these scopes,
\* with the 0-based index of that scope.  get_value_mut selects the same
\* binding, so a write through it changes what get_value reads.
C28_LookupFindsInnermost ==
    /\ [](\A n \in ScopeNames :
             /\ Binding(n) = {} =>
                   get_value(scopes, n) = None /\ get_value_mut(scopes, n) = None
             /\ \A i \in Binding(n) :
                   (\A j \in Binding(n) : j <= i) =>
                       /\ get_value(scopes, n) =
                             Some([scope |-> i - 1, object |-> scopes[i][n]])
                       /\ get_value_mut(scopes, n) = get_value(scopes, n))
    /\ [][\A n \in ScopeNames, v \in ScopeValues :
             (/\ Binding(n) # {}
              /\ scopes' = set_var(State, n, Nil, v).val.scopes) =>
                 /\ get_value(scopes', n).val.object = v
                 /\ get_value(scopes', n).val.scope =
                       get_value(scopes, n).val.scope
        ]_vars

\* C28, witness: a name is bound in two scopes to different values, and
\* the lookup finds the inner one.
C28_Witness ==
    /\ Len(scopes) = 2
    /\ "a" \in DOMAIN scopes[1]
    /\ "a" \in DOMAIN scopes[2]
    /\ scopes[1]["a"] = Object_new("v")
    /\ scopes[2]["a"] = Object_new("w")
    /\ get_value(scopes, "a").val.scope = 1

\* C29: in every table that calls of replace make, replace(n) returns an
\* id that evaluates to n; a later replace(m) returns the same id exactly
\* if m is n, and whatever it inserts, the id still evaluates to n.
C29_NameIdsAreStable ==
    \A n \in SourceNames :
        \A r \in {VarNames_replace(var_names, n)} :
            /\ VarNames_evaluate(r.names, r.id) = Some(n)
            /\ \A i \in 0 .. Len(var_names) - 1 :
                  VarNames_evaluate(r.names, i) =
                      VarNames_evaluate(var_names, i)
            /\ \A m \in SourceNames :
                  \A q \in {VarNames_replace(r.names, m)} :
                      /\ q.id = r.id <=> m = n
                      /\ VarNames_evaluate(q.names, r.id) = Some(n)

\* C29, witness: three names have been inserted; a replace of the first
\* returns its id, 0, and leaves the table as it is.
C29_Witness ==
    /\ Len(var_names) = 3
    /\ VarNames_replace(var_names, var_names[1]).id = 0
    /\ VarNames_replace(var_names, var_names[1]).names = var_names
    /\ VarNames_replace(var_names, "visited").id = 3

\* C30: the interval of the TimeoutLoop that from_sleep_times(duration, n)
\* makes is the least s with s * n >= duration; the loop keeps the
\* duration; for 1000 ms and 3 polls the interval is 334 ms.
C30_IntervalIsCeiling ==
    timeout_loop.made # Nil =>
        /\ timeout_loop.made.duration = timeout_loop.duration
        /\ timeout_loop.made.sleep * timeout_loop.n >= timeout_loop.duration
        /\ \A s \in 0 .. timeout_loop.duration :
              s * timeout_loop.n >= timeout_loop.duration =>
                  timeout_loop.made.sleep <= s
        /\ (timeout_loop.duration = 1000 /\ timeout_loop.n = 3) =>
              timeout_loop.made.sleep = 334

\* C30, witness: the loop for 1000 ms and 3 polls has been made.
C30_Witness ==
    /\ timeout_loop.duration = 1000
    /\ timeout_loop.n = 3
    /\ timeout_loop.made # Nil
    /\ timeout_loop.made.sleep = 334

\* The wait loop runs on a TimeoutLoop made by from_sleep_times.
MadeLoop ==
    /\ timeout_loop.running # Nil
    /\ timeout_loop.running.given
    /\ timeout_loop.duration >= 1

\* What wait_loop keeps to: no more polls and sleeps than n, nothing after
\* a poll that returned true, less slept than the duration and one
\* interval, and no panic.
WaitLoopBounds ==
    /\ timeout_loop.running.polls <= timeout_loop.n
    /\ timeout_loop.running.sleeps <= timeout_loop.n
    /\ timeout_loop.running.slept <
          timeout_loop.duration + timeout_loop.made.sleep
    /\ timeout_loop.running.broke # "none" => timeout_loop.running.at # "head"
    /\ timeout_loop.running.at # "panic"

\* C31: for a TimeoutLoop made by from_sleep_times(duration, n) with
\* duration >= 1 and n >= 1, wait_loop polls at most n times, sleeps at
\* most n times, stops at the first poll that returns true and sleeps in
\* total less than the duration plus one interval.
C31_WaitLoopIsBounded ==
    MadeLoop => WaitLoopBounds

\* The part of C31 that the code keeps: the same for every duration below
\* half the largest u64, where `current += self.sleep` cannot overflow.
WaitLoopIsBoundedBelowHalfWord ==
    (MadeLoop /\ 2 * timeout_loop.duration < Word) => WaitLoopBounds

\* A wait loop for a short duration that used its whole budget of n >= 2
\* polls.
WaitLoopUsedBudget ==
    /\ MadeLoop
    /\ 2 * timeout_loop.duration < Word
    /\ timeout_loop.n >= 2
    /\ timeout_loop.running.polls = timeout_loop.n
    /\ timeout_loop.running.sleeps = timeout_loop.n
    /\ timeout_loop.running.at = "after"

\* Running::wait_or_terminate has returned.
WaitOrTerminateDone ==
    /\ timeout_loop.running # Nil
    /\ timeout_loop.running.at = "done"

\* C32: when Running::wait_or_terminate returns after the polling budget
\* ran out without an exit, or after a tick saw the cancellation flag, an
\* OS kill was issued for the child and its display finished as Killed; a
\* child that exited within the budget is shown as Success or Failed and
\* was not killed.
C32_WaitOrTerminateKills ==
    WaitOrTerminateDone =>
        /\ timeout_loop.running.broke \in {"none", "shutdown"} =>
              /\ timeout_loop.running.kills = 1
              /\ timeout_loop.running.message = "Killed"
        /\ timeout_loop.running.broke \in {"success", "failure"} =>
              /\ timeout_loop.running.kills = 0
              /\ timeout_loop.running.message \in {"Success", "Failed"}

\* The part of C32 that the code keeps: a child that exited within the
\* budget is shown as Success or Failed and was not killed.
WaitOrTerminateReportsExit ==
    (WaitOrTerminateDone
        /\ timeout_loop.running.broke \in {"success", "failure"}) =>
        /\ timeout_loop.running.kills = 0
        /\ timeout_loop.running.message =
              (IF timeout_loop.running.broke = "success" THEN "Success"
               ELSE "Failed")

\* A bounded wait that ran out of its budget and returned with the child
\* neither killed nor shown as finished.
WaitOrTerminateLeftChild ==
    /\ WaitOrTerminateDone
    /\ timeout_loop.running.given
    /\ timeout_loop.running.broke = "none"
    /\ timeout_loop.running.kills = 0
    /\ timeout_loop.running.message = ""

\* The supervisor has seen the cancellation flag set in a wait, or is
\* seeing it now at the head of one.
SawCancellation ==
    \/ AdmissionCancelled
    \/ lastWait # Nil /\ lastWait.outcome = "cancel"

\* C33: once the supervisor has seen the cancellation flag set in a wait,
\* no step starts a child; a Spawn whose admission wait ended by
\* cancellation does not go on to start its child.
C33_NoLaunchAfterCancellation ==
    [][SawCancellation => Len(children') = Len(children)]_vars

\* The part of C33 that the code keeps: once a wait has returned after
\* seeing the flag set, no later step starts a child.
NoLaunchAfterCancelledWait ==
    [][(lastWait # Nil /\ lastWait.outcome = "cancel")
          => Len(children') = Len(children)]_vars

\* A Spawn's admission wait sees the flag set.
SpawnAdmissionCancelled ==
    /\ AdmissionCancelled
    /\ wait.caller = "Spawn"

\* A cancelled admission wait was followed by the launch of the Spawn's
\* child.
LaunchedAfterCancellation ==
    /\ lastWait # Nil
    /\ lastWait.caller = "Spawn"
    /\ lastWait.outcome = "cancel"
    /\ Len(children) > 0
    /\ children[Len(children)].kills = 0
    /\ pc = "run"

\* The worker has sent its completion notification and the supervisor
\* tracks no child.
WorkerFinished ==
    /\ pc = "sent"
    /\ processes = <<>>

\* C34: after the cancellation flag is set the worker eventually finishes:
\* the run and the reset return, the completion notification is sent, and
\* then the supervisor tracks no child that was neither killed nor seen
\* terminal.
C34_CancelledWorkerFinishes ==
    is_shutdown ~> WorkerFinished

\* The part of C34 that the code keeps: a worker whose run has not
\* panicked finishes after the flag is set.
CancelledWorkerFinishesUnlessPanicked ==
    (is_shutdown /\ ~IsAbort(result)) ~> WorkerFinished

\* The flag is set and the worker thread has died in a panic.
CancelledAfterPanic ==
    /\ is_shutdown
    /\ pc = "returned"
    /\ result.tag = "Panic"

\* The worker finished after the flag was set while children were tracked.
CancelledWorkerFinished ==
    /\ WorkerFinished
    /\ is_shutdown
    /\ cancelAt # Nil
    /\ cancelAt.tracked # {}

\* A Spawn is in its admission wait.
SpawnBlocked ==
    /\ pc \in {"wait_head", "wait_sleep"}
    /\ wait.caller = "Spawn"

\* Every tracked child has exited.
TrackedExited ==
    \A c \in Tracked(processes) : children[c].os # "alive"

\* C35: for every limit, 0 included, if the tracked children eventually
\* exit or the cancellation flag is eventually set, a Spawn that waits for
\* admission eventually leaves its wait.
C35_AdmissionNeverDeadlocks ==
    [](SpawnBlocked => <>(TrackedExited \/ is_shutdown))
        => [](SpawnBlocked => <>~SpawnBlocked)

\* A Spawn under the limit 0 waits for admission while a child that is
\* still running is tracked.
SpawnBlockedAtLimitZero ==
    /\ SpawnBlocked
    /\ spawn_limit # Nil
    /\ spawn_limit.n = 0
    /\ ~TrackedExited
    /\ ~is_shutdown

\* Under the limit 0 a Spawn was admitted after its wait had drained.
C35_Witness ==
    /\ spawn_limit # Nil
    /\ spawn_limit.n = 0
    /\ lastWait # Nil
    /\ lastWait.caller = "Spawn"
    /\ lastWait.outcome = "drained"
    /\ Len(children) = 2
    /\ children[1].state.kind \in {"Finished", "Failed"}
    /\ children[2].state.kind = "Running"
    /\ ~is_shutdown

\* main is at the top of its loop over the command programs, after the
\* pop_scope and the reset that follow a run.
BeforeNextProgram == pc = "next"

\* C36: the next command program starts on the scopes that were there
\* before the first one (here the scope of the globals, which binds
\* nothing) plus its own fresh scope, whether the run before completed, was
\* cancelled or returned an error, inside a block or not; nothing the
\* earlier program created is bound any more.
C36_ProgramsStartAlike ==
    BeforeNextProgram =>
        /\ scopes = <<EmptyMap>>
        /\ new_scope(State).scopes = <<EmptyMap, EmptyMap>>

\* The part of C36 that the code keeps: the same when the run before ended
\* outside every loop and if block.
ProgramsStartAlikeAfterTopLevelEnd ==
    (BeforeNextProgram /\ LexicalDepth(counter) = 0) =>
        /\ scopes = <<EmptyMap>>
        /\ new_scope(State).scopes = <<EmptyMap, EmptyMap>>

\* A run returned an error inside a loop, and the next command program
\* starts above scopes the earlier program left, which still bind its
\* variables.
LeftoverScopesAfterError ==
    /\ BeforeNextProgram
    /\ result.tag = "Err"
    /\ Len(scopes) > 1
    /\ \E n \in DOMAIN scopes[2] : TRUE

\* A run was cancelled inside a block, and the next command program starts
\* above the scopes it left.
LeftoverScopesAfterCancel ==
    /\ BeforeNextProgram
    /\ result.tag = "Ok"
    /\ hooks.shutdown = 1
    /\ Len(scopes) > 1

\* Runs that completed, and runs that ended at the top level, are followed
\* by a next program on the first scopes alone.
CleanStartAfterCompletion ==
    /\ BeforeNextProgram
    /\ hooks.finish = 1
    /\ scopes = <<EmptyMap>>
    /\ Len(scope_cache) > 1

RECURSIVE RefsOf(_)
\* The Refs an object holds: itself, or those of its elements or properties.
RefsOf(object) ==
    CASE object.kind = "Ref" -> {object}
      [] object.kind = "List" ->
            UNION {RefsOf(object.items[k]) : k \in 1 .. Len(object.items)}
      [] object.kind = "Struct" ->
            UNION {RefsOf(object.properties[p]) :
                      p \in DOMAIN object.properties}
      [] OTHER -> {}

\* Every Ref stored in the scope stack.
StoredRefs ==
    UNION {UNION {RefsOf(scopes[i][n]) : n \in DOMAIN scopes[i]} :
              i \in 1 .. Len(scopes)}

\* The scope a Ref names exists and binds the Ref's target.
TargetLives(r) ==
    /\ r.scope < Len(scopes)
    /\ r.target \in DOMAIN scopes[r.scope + 1]

\* C37: every Ref stored in the scope stack, copies made by cloning a loop
\* variable included, names a scope that exists and binds its target.
C37_TargetsOutliveRefs ==
    \A r \in StoredRefs : TargetLives(r)

\* The names of the program's iteration variables.
IterNames == {program[q + 1].iter : q \in StartIters}

\* The part of C37 that the code keeps: the Ref that a loop binds to its
\* iteration variable names a scope that exists and binds its target.
IterationTargetsLive ==
    \A i \in 1 .. Len(scopes) :
       \A n \in DOMAIN scopes[i] \cap IterNames :
          scopes[i][n].kind = "Ref" => TargetLives(scopes[i][n])

\* The loops have ended and a variable of the program scope holds the copy
\* of a loop variable whose target was in a scope that is gone.
DanglingRefStored ==
    /\ scenario.name = "dangle"
    /\ pc = "run"
    /\ Len(scopes) = 2
    /\ "y" \in DOMAIN scopes[2]
    /\ scopes[2]["y"].kind = "Ref"
    /\ scopes[2]["y"].scope >= Len(scopes)

\* A loop variable that is a Ref is bound while its loop runs.
IterationRefBound ==
    /\ pc = "run"
    /\ \E i \in 1 .. Len(scopes) :
       \E n \in DOMAIN scopes[i] \cap IterNames :
          /\ scopes[i][n].kind = "Ref"
          /\ scopes[i][n].scope = 3
          /\ TargetLives(scopes[i][n])

\* C38: in `c := start..end; for a in c { push visited a }` the passes
\* made so far are passes 0, 1, .. with a evaluating to start + j on pass j,
\* as in a loop over the literal range; there are never more than
\* max(0, end - start) of them, and exactly that many when the run has
\* completed.
C38_CounterVariableLoopPasses ==
    scenario.name = "cvar" =>
        /\ result.tag \in {"Running", "Ok"}
        /\ Len(Visited) <= RangePasses
        /\ \A j \in 1 .. Len(Visited) :
              Visited[j] = Object_new(FormatInt(RangeLo + j - 1))
        /\ Completed => Len(Visited) = RangePasses

\* The part of C38 that the code keeps: the number of passes is
\* max(0, end - start); on every pass a evaluates to start.
CounterVariableLoopCounts ==
    scenario.name = "cvar" =>
        /\ result.tag \in {"Running", "Ok"}
        /\ Len(Visited) <= RangePasses
        /\ \A j \in 1 .. Len(Visited) :
              Visited[j] = Object_new(FormatInt(RangeLo))
        /\ Completed => Len(Visited) = RangePasses

\* A loop over a variable holding the Counter -1 .. 2 has completed: three
\* passes, each with the value -1.
CounterVariableLoopRepeatsStart ==
    /\ scenario.name = "cvar"
    /\ RangeLo = -1
    /\ RangeHi = 2
    /\ Completed
    /\ Len(Visited) = 3
    /\ Visited[3] = Object_new("-1")

\* set_state has been called with a terminal state and has returned.
TerminalStateSet ==
    /\ bar.finished
    /\ bar.setting = Nil

\* C39: under every interleaving of the two reader threads with the
\* interpreter thread, once set_state has set a terminal state the message
\* of the bar is that state's text: no set_message of a reader replaces it.
C39_TerminalMessageStays ==
    TerminalStateSet => bar.message = StateText(bar.status)

\* The part of C39 that the code keeps: a set_message that looks at the
\* status after a terminal state was stored does not go on to write.
NoWriteStartsAfterTerminal ==
    [][\A r \in Readers :
          (bar.reader[r] # "write" /\ bar'.reader[r] = "write")
              => bar.status.kind = "Running"]_vars

\* A reader has replaced the message of a bar that was finished as Killed.
TerminalMessageOverwritten ==
    /\ TerminalStateSet
    /\ bar.status.kind = "Killed"
    /\ bar.message = "out"

\* A reader's set_message returned without writing because the state was
\* terminal.
ReaderSawTerminal ==
    /\ TerminalStateSet
    /\ bar.message = StateText(bar.status)
    /\ bar.reader[1] = "done"
    /\ bar.reader[2] = "done"

\* The index combinations below the bounds of the TestBed.
Combinations ==
    {c \in [1 .. Len(run_all.max_indices) -> 0 .. MaxIndexBound] :
        \A i \in 1 .. Len(c) : c[i] < run_all.max_indices[i]}

\* No combination was run twice, and the combinations run after
\* increment_indices returned true are below the bounds.
RanOnceBelowBounds ==
    /\ \A j, k \in 1 .. Len(run_all.ran) :
          run_all.ran[j] = run_all.ran[k] => j = k
    /\ \A j \in 1 .. Len(run_all.ran) : run_all.ran[j] \in Combinations

\* C40: run_all with bounds m1..mk, all at least 1, runs the commands once
\* for every index combination below the bounds and for none twice, and
\* the indices are below their bounds whenever increment_indices returned
\* true.
C40_RunAllCoversCombinations ==
    /\ RanOnceBelowBounds
    /\ run_all.at = "done" =>
          {run_all.ran[j] : j \in 1 .. Len(run_all.ran)} = Combinations

\* The part of C40 that the code keeps: no combination twice, indices below
\* the bounds after a true return, and with at most one index every
\* combination.
RunAllCoversSingleIndex ==
    /\ RanOnceBelowBounds
    /\ (run_all.at = "done" /\ Len(run_all.max_indices) <= 1) =>
          {run_all.ran[j] : j \in 1 .. Len(run_all.ran)} = Combinations

\* run_all has returned for the bounds 2 and 3 after four of the six
\* combinations.
RunAllSkipped ==
    /\ run_all.at = "done"
    /\ run_all.max_indices = <<2, 3>>
    /\ run_all.ran = <<(<<0, 0>>), <<1, 0>>, <<0, 2>>, <<1, 2>>>>

\* run_all has returned for a single index with the bound 3 after its
\* three combinations.
RunAllSingleIndexDone ==
    /\ run_all.at = "done"
    /\ run_all.max_indices = <<3>>
    /\ run_all.ran = <<(<<0>>), <<1>>, <<2>>>>

====
